---- MODULE Spec2Model ----
(***************************************************************************)
(* Verification model of the stjlib validator                              *)
(* (src/src/stjlib/validation/validators.py) and of the deserializer       *)
(* entry points it depends on (src/src/stjlib/core/data_classes.py).       *)
(*                                                                         *)
(* Values are modelled as tagged records so that a field can hold a value  *)
(* of the wrong Python type.  Validators are operators that return the     *)
(* sequence of issues the Python function returns.                         *)
(***************************************************************************)
EXTENDS Integers, Sequences, FiniteSets, TLC

VARIABLES
    pc,        \* position of the running call
    stj,       \* the document handed to validate_stj
    issues,    \* the issue list being built / returned
    ran,       \* validate_stj phases that have run so far
    targ,      \* argument of a stand-alone validate_time_format call
    zarg,      \* arguments of a stand-alone validate_zero_duration call
    heap,      \* the namespace maps handed to validate_extensions
    stack,     \* the frames of the running validate_extensions calls
    segment1,  \* first argument of a _handle_segment_overlap call
    segment2,  \* second argument of a _handle_segment_overlap call
    ret,       \* the segment _handle_segment_overlap returns (or None)
    first      \* the list an earlier validate_stj call on stj returned

\* the objects of a _handle_segment_overlap call
recovery == <<segment1, segment2, ret>>

vars == <<pc, stj, issues, ran, targ, zarg, heap, stack, recovery, first>>

-----------------------------------------------------------------------------
(* Program constants *)

\* MAX_TIME_VALUE = 999999.999, held in thousandths
MAX_TIME_MILLIS == 999999999
MAX_DECIMAL_PLACES == 3

-----------------------------------------------------------------------------
(* Issues *)

NoIdx == -1

\* a location "root[idx].words[widx].field"; indices are the 0-based ones of
\* the Python code, NoIdx where the path has no index
Loc(root, idx, widx, field) ==
    [root |-> root, idx |-> idx, widx |-> widx, field |-> field]

NoLoc == Loc("", NoIdx, NoIdx, "")

\* the location of an issue is the set of the places it names: one place,
\* or the places joined by ", " in a consolidated issue
Issue(message, places, severity) ==
    [message |-> message, location |-> places, severity |-> severity]

Err(message, location) == Issue(message, {location}, "ERROR")
Warn(message, location) == Issue(message, {location}, "WARNING")

RECURSIVE Concat(_)
\* issues.extend(...) over a sequence of issue lists
Concat(ss) == IF ss = <<>> THEN <<>> ELSE Head(ss) \o Concat(Tail(ss))

Range(s) == {s[i] : i \in DOMAIN s}

-----------------------------------------------------------------------------
(* Numbers.  A time value is a tagged record:                              *)
(*   kind    "none" | "int" | "float" | "decimal" | "str" | "bool" |       *)
(*           "other"                                                       *)
(*   special "fin" | "inf" | "nan" | "bad" ("bad": a string Decimal()      *)
(*           cannot parse)                                                 *)
(*   neg, coef, exp : the value is (-1)^neg * coef * 10^exp                *)
(*   e       for kind "str": the text contains the letter e                *)

TV(kind, special, neg, coef, exp, e) ==
    [kind |-> kind, special |-> special, neg |-> neg, coef |-> coef,
     exp |-> exp, e |-> e]

NoneT == TV("none", "fin", FALSE, 0, 0, FALSE)
IntT(n) == TV("int", "fin", n < 0, IF n < 0 THEN -n ELSE n, 0, FALSE)
\* a finite float given by its shortest decimal digits coef * 10^exp
FloatT(neg, coef, exp) == TV("float", "fin", neg, coef, exp, FALSE)

RECURSIVE Pow10(_)
Pow10(k) == IF k <= 0 THEN 1 ELSE 10 * Pow10(k - 1)

RECURSIVE NDigits(_)
\* len(str(coef))
NDigits(n) == IF n < 10 THEN 1 ELSE 1 + NDigits(n \div 10)

Abs(n) == IF n < 0 THEN -n ELSE n

\* repr(float) uses exponent notation when the decimal exponent of the leading
\* digit is below -4 or at least 16
FloatReprSci(v) ==
    /\ v.special = "fin"
    /\ v.coef # 0
    /\ LET adj == v.exp + NDigits(v.coef) - 1 IN adj < -4 \/ adj >= 16

\* Decimal.__str__ uses exponent notation unless exp <= 0 and
\* exp + len(digits) > -6
DecimalStrSci(v) ==
    /\ v.special = "fin"
    /\ ~(v.exp <= 0 /\ v.exp + NDigits(v.coef) > -6)

\* "e" in str(time_value).lower()
StrHasE(v) ==
    CASE v.kind = "float" -> FloatReprSci(v)
      [] v.kind = "decimal" -> DecimalStrSci(v)
      [] v.kind = "str" -> v.e
      [] v.kind = "bool" -> TRUE          \* "True", "False"
      [] OTHER -> FALSE

\* exponent of the Decimal built from the value (Decimal(str(float)) for a
\* float: repr writes an integral float as "<digits>.0")
DecimalExp(v) ==
    IF v.kind = "float" /\ ~FloatReprSci(v) /\ v.exp >= 0 THEN -1 ELSE v.exp

\* decimal_value < 0
IsNegative(v) == v.neg /\ (v.special = "inf" \/ v.coef # 0)

\* coef * 10^exp > MAX_TIME_VALUE, computed without leaving 32 bits
GtMax(coef, exp) ==
    IF exp >= -3
    THEN IF exp + 3 >= 10 THEN coef > 0
         ELSE coef > MAX_TIME_MILLIS \div Pow10(exp + 3)
    ELSE LET k == -3 - exp IN
         IF k >= 10 THEN FALSE
         ELSE LET q == coef \div Pow10(k)
                  r == coef % Pow10(k)
              IN q > MAX_TIME_MILLIS \/ (q = MAX_TIME_MILLIS /\ r > 0)

\* decimal_value.quantize(Decimal("0.001"), ROUND_HALF_EVEN), in thousandths
QuantizeMillis(coef, exp) ==
    IF exp >= -3 THEN coef * Pow10(exp + 3)
    ELSE LET k == -3 - exp
             q == coef \div Pow10(k)
             r == coef % Pow10(k)
             half == 5 * Pow10(k - 1)
         IN IF r > half \/ (r = half /\ q % 2 = 1) THEN q + 1 ELSE q

validate_time_format_bad(v, location) ==
    IF v.kind \notin {"decimal", "int", "bool", "float", "str"}
    THEN <<Err("Time value must be a number", location)>>
    ELSE IF v.special \in {"nan", "bad"}
    THEN <<Err("Invalid time value", location)>>
    ELSE IF IsNegative(v)
    THEN <<Err("Time value must be non-negative", location)>>
    ELSE IF v.special = "inf" \/ GtMax(v.coef, v.exp)
    THEN <<Err("Time value exceeds maximum allowed", location)>>
    ELSE IF QuantizeMillis(v.coef, DecimalExp(v)) > MAX_TIME_MILLIS
    THEN <<Err("Time value would round above maximum allowed", location)>>
    ELSE (IF StrHasE(v)
          THEN <<Err("Scientific notation is not allowed for time values",
                     location)>>
          ELSE <<>>)

validate_time_format(v, location) ==
    IF v.kind \notin {"decimal", "int", "bool", "float", "str"}
    THEN <<Err("Time value must be a number", location)>>
    \* Decimal("abc") and every ordering comparison of a NaN raise
    \* InvalidOperation, which the function catches
    ELSE IF v.special \in {"nan", "bad"}
    THEN <<Err("Invalid time value", location)>>
    ELSE IF IsNegative(v)
    THEN <<Err("Time value must be non-negative", location)>>
    ELSE IF v.special = "inf" \/ GtMax(v.coef, v.exp)
    THEN <<Err("Time value exceeds maximum allowed", location)>>
    ELSE IF QuantizeMillis(v.coef, DecimalExp(v)) > MAX_TIME_MILLIS
    THEN <<Err("Time value would round above maximum allowed", location)>>
    ELSE (IF Abs(DecimalExp(v)) > MAX_DECIMAL_PLACES
          THEN <<Err("Time value has too many decimal places", location)>>
          ELSE <<>>)
         \o
         (IF StrHasE(v)
          THEN <<Err("Scientific notation is not allowed for time values",
                     location)>>
          ELSE <<>>)

-----------------------------------------------------------------------------
(* Comparison of two finite numbers (Python compares int, float and       *)
(* Decimal by value)                                                       *)

Signed(v) == IF v.neg THEN -v.coef ELSE v.coef

MinOf(a, b) == IF a <= b THEN a ELSE b

NumLt(a, b) ==
    LET m == MinOf(a.exp, b.exp)
    IN Signed(a) * Pow10(a.exp - m) < Signed(b) * Pow10(b.exp - m)

NumEq(a, b) ==
    LET m == MinOf(a.exp, b.exp)
    IN Signed(a) * Pow10(a.exp - m) = Signed(b) * Pow10(b.exp - m)

NumGt(a, b) == NumLt(b, a)

-----------------------------------------------------------------------------
(* validate_zero_duration.  The flag is Optional[bool]: "none", "true" or  *)
(* "false"; "not is_zero_duration" holds for "none" and "false".           *)

Truthy(flag) == flag = "true"

validate_zero_duration_bad(start, end, is_zero_duration, location) ==
    IF NumEq(start, end)
    THEN IF ~Truthy(is_zero_duration)
         THEN <<Err("Zero duration item must have is_zero_duration set to true",
                    location)>>
         ELSE <<>>
    ELSE IF NumGt(start, end)
         THEN <<Err("Start time cannot be greater than end time", location)>>
         ELSE <<>>

validate_zero_duration(start, end, is_zero_duration, location) ==
    IF NumEq(start, end)
    THEN IF ~Truthy(is_zero_duration)
         THEN <<Err("Zero duration item must have is_zero_duration set to true",
                    location)>>
         ELSE <<>>
    ELSE IF Truthy(is_zero_duration)
         THEN <<Err("Non-zero duration item cannot have is_zero_duration set to true",
                    location)>>
         ELSE IF NumGt(start, end)
         THEN <<Err("Start time cannot be greater than end time", location)>>
         ELSE <<>>

-----------------------------------------------------------------------------
(* Strings are sequences of one-character strings, so that the regular    *)
(* expressions and str methods of the code can be computed.  An optional  *)
(* string field is a tagged record: t is "none", "str" or "int" (a value  *)
(* of the wrong type).                                                     *)

NoneS == [t |-> "none", s |-> <<>>]
Str(s) == [t |-> "str", s |-> s]
IntS == [t |-> "int", s |-> <<>>]

LowerLetters ==
    <<"a", "b", "c", "d", "e", "f", "g", "h", "i", "j", "k", "l", "m",
      "n", "o", "p", "q", "r", "s", "t", "u", "v", "w", "x", "y", "z">>

UpperLetters ==
    <<"A", "B", "C", "D", "E", "F", "G", "H", "I", "J", "K", "L", "M",
      "N", "O", "P", "Q", "R", "S", "T", "U", "V", "W", "X", "Y", "Z">>

Digits == <<"0", "1", "2", "3", "4", "5", "6", "7", "8", "9">>

\* str.lower() on one character
LowerChar(c) ==
    IF \E i \in DOMAIN UpperLetters : UpperLetters[i] = c
    THEN LowerLetters[CHOOSE i \in DOMAIN UpperLetters : UpperLetters[i] = c]
    ELSE c

Lower(s) == [i \in DOMAIN s |-> LowerChar(s[i])]

IsDigit(c) == c \in Range(Digits)

\* int() of one digit
DigitVal(c) == (CHOOSE i \in DOMAIN Digits : Digits[i] = c) - 1

\* "not s.strip()": empty or white space only
IsBlank(s) == \A i \in DOMAIN s : s[i] = " "

RECURSIVE LStrip(_)
LStrip(s) == IF s # <<>> /\ Head(s) = " " THEN LStrip(Tail(s)) ELSE s

RECURSIVE RStrip(_)
RStrip(s) ==
    IF s # <<>> /\ s[Len(s)] = " " THEN RStrip(SubSeq(s, 1, Len(s) - 1)) ELSE s

\* str.strip()
Strip(s) == RStrip(LStrip(s))

\* SPEAKER_ID_PATTERN  ^[A-Za-z0-9_-]{1,64}$
MAX_SPEAKER_ID_LENGTH == 64

IdChars ==
    Range(LowerLetters) \cup Range(UpperLetters) \cup Range(Digits) \cup {"_", "-"}

MatchesIdPattern(s) ==
    /\ Len(s) >= 1
    /\ Len(s) <= MAX_SPEAKER_ID_LENGTH
    /\ \A i \in DOMAIN s : s[i] \in IdChars

-----------------------------------------------------------------------------
(* validate_version *)

RECURSIVE SplitDots(_, _)
\* version.split("."), cur being the part read so far
SplitDots(s, cur) ==
    IF s = <<>> THEN <<cur>>
    ELSE IF Head(s) = "." THEN <<cur>> \o SplitDots(Tail(s), <<>>)
    ELSE SplitDots(Tail(s), Append(cur, Head(s)))

\* SEMVER_PATTERN  ^\d+\.\d+\.\d+$
MatchesSemver(s) ==
    LET parts == SplitDots(s, <<>>)
    IN /\ Len(parts) = 3
       /\ \A i \in 1..3 :
            parts[i] # <<>> /\ \A j \in DOMAIN parts[i] : IsDigit(parts[i][j])

RECURSIVE ParseInt(_)
\* int() of a digit string
ParseInt(s) ==
    IF s = <<>> THEN 0
    ELSE 10 * ParseInt(SubSeq(s, 1, Len(s) - 1)) + DigitVal(s[Len(s)])

SUPPORTED_MAJOR == 0
SUPPORTED_MINOR == 6

validate_version(version) ==
    IF version.t # "str" \/ version.s = <<>>
    THEN <<Err("Missing or invalid 'stj.version'",
               Loc("stj.version", NoIdx, NoIdx, ""))>>
    ELSE IF ~MatchesSemver(version.s)
    THEN <<Err("Invalid 'stj.version' format",
               Loc("stj.version", NoIdx, NoIdx, ""))>>
    ELSE LET parts == SplitDots(version.s, <<>>)
             major == ParseInt(parts[1])
             minor == ParseInt(parts[2])
         IN IF major # SUPPORTED_MAJOR \/ minor # SUPPORTED_MINOR
            THEN <<Err("Incompatible version",
                       Loc("stj.version", NoIdx, NoIdx, ""))>>
            ELSE <<>>

-----------------------------------------------------------------------------
(* validate_root_structure.  _additional_fields is modelled by the set of *)
(* its keys.                                                               *)

ALLOWED_ROOT_FIELDS ==
    {<<"v", "e", "r", "s", "i", "o", "n">>,
     <<"t", "r", "a", "n", "s", "c", "r", "i", "p", "t">>,
     <<"m", "e", "t", "a", "d", "a", "t", "a">>}

validate_root_structure(doc) ==
    IF doc.invalid_type
    THEN <<Err("STJ data must be a dictionary", Loc("stj", NoIdx, NoIdx, ""))>>
    ELSE LET unexpected_fields ==
                 {k \in doc.additional_fields : k = <<>> \/ Head(k) # "_"}
                     \ ALLOWED_ROOT_FIELDS
         IN IF unexpected_fields # {}
            THEN <<Err("Unexpected fields in stj", Loc("stj", NoIdx, NoIdx, ""))>>
            ELSE <<>>

-----------------------------------------------------------------------------
(* Language codes.  The ISO 639 tables belong to the iso639 package the   *)
(* validator imports; the model holds a fragment of them: two languages   *)
(* with a two-letter and a three-letter code, one with a three-letter     *)
(* code only.                                                              *)

EN == <<"e", "n">>
ENG == <<"e", "n", "g">>
FR == <<"f", "r">>
FRA == <<"f", "r", "a">>
YUE == <<"y", "u", "e">>

\* is_language(code, "pt1")
IsPt1(code) == code \in {EN, FR}
\* is_language(code, "pt3")
IsPt3(code) == code \in {ENG, FRA, YUE}
\* Lang(code).pt1 of a three-letter code; <<>> when the language has none
Pt1Of(code) ==
    CASE code = ENG -> EN
      [] code = FRA -> FR
      [] OTHER -> <<>>

validate_language_code(code, location) ==
    IF code.t # "str" \/ IsBlank(code.s)
    THEN <<Err("Language code must be a non-empty string.", location)>>
    ELSE LET c == Strip(code.s) IN
         IF Len(c) = 2
         THEN IF ~IsPt1(c)
              THEN <<Err("Invalid ISO 639-1 language code", location)>>
              ELSE <<>>
         ELSE IF Len(c) = 3
         THEN IF ~IsPt3(c)
              THEN <<Err("Invalid ISO 639-3 language code", location)>>
              ELSE IF Pt1Of(c) # <<>>
              THEN <<Err("Must use ISO 639-1 code instead of ISO 639-3 code",
                         location)>>
              ELSE <<>>
         ELSE <<Err("Invalid language code", location)>>

-----------------------------------------------------------------------------
(* Speaker and style ids *)

validate_speaker_id(speaker_id, location) ==
    IF ~MatchesIdPattern(speaker_id.s)
    THEN <<Err("Invalid 'speaker_id' format", location)>>
    ELSE <<>>

validate_style_id(style_id, location) ==
    IF ~MatchesIdPattern(style_id.s)
    THEN <<Err("Invalid 'style_id' format", location)>>
    ELSE <<>>

RECURSIVE validate_speakers_loop(_, _, _)
\* the loop of validate_speakers, from speaker n on; seen is speaker_ids
validate_speakers_loop(speakers, n, seen) ==
    IF n > Len(speakers) THEN <<>>
    ELSE LET speaker == speakers[n]
             location == Loc("transcript.speakers", n - 1, NoIdx, "id")
         IN validate_speaker_id(speaker.id, location)
            \o (IF speaker.id \in seen
                THEN <<Err("Duplicate speaker ID", location)>>
                ELSE <<>>)
            \o validate_speakers_loop(speakers, n + 1, seen \cup {speaker.id})

validate_speakers(transcript) ==
    validate_speakers_loop(transcript.speakers, 1, {})

RECURSIVE validate_styles_loop(_, _, _)
\* the loop of validate_styles over styles that carry an id only
validate_styles_loop(styles, n, seen) ==
    IF n > Len(styles) THEN <<>>
    ELSE LET style == styles[n]
             location == Loc("transcript.styles", n - 1, NoIdx, "id")
         IN (IF style.id \in seen
             THEN <<Err("Duplicate style ID", location)>>
             ELSE <<>>)
            \o validate_styles_loop(styles, n + 1, seen \cup {style.id})

validate_styles(transcript) ==
    IF transcript.styles.t = "none" THEN <<>>
    ELSE validate_styles_loop(transcript.styles.items, 1, {})

-----------------------------------------------------------------------------
(* Words of a segment.  segment.words is [t |-> "none" | "list", items];   *)
(* word_timing_mode is [t |-> "none" | "enum" | "str", s |-> characters].  *)

COMPLETE == <<"c", "o", "m", "p", "l", "e", "t", "e">>
PARTIAL == <<"p", "a", "r", "t", "i", "a", "l">>
NONE == <<"n", "o", "n", "e">>

WordTimingModeValues == {COMPLETE, PARTIAL, NONE}

NoMode == [t |-> "none", s |-> <<>>]
EnumMode(m) == [t |-> "enum", s |-> m]
StrMode(s) == [t |-> "str", s |-> s]

HasTiming(word) == word.start.kind # "none" /\ word.end.kind # "none"

\* "segment.words or []"
WordsOf(segment) ==
    IF segment.words.t = "none" THEN <<>> ELSE segment.words.items

\* WordTimingStatus: "COMPLETE", "NONE" or "INVALID"
_determine_word_timing_mode(words) ==
    IF words = <<>> THEN "NONE"
    ELSE IF \A i \in DOMAIN words : HasTiming(words[i]) THEN "COMPLETE"
    ELSE "INVALID"

WordLoc(segment_idx, word_idx, field) ==
    Loc("transcript.segments", segment_idx, word_idx, field)

RECURSIVE _validate_word_timings_loop(_, _, _, _, _)
\* the loop of _validate_word_timings from word n on; has_prev is
\* "previous_word_end is not None"
_validate_word_timings_loop(segment, segment_idx, words, n, prev) ==
    IF n > Len(words) THEN <<>>
    ELSE LET word == words[n] IN
         IF word.start.kind = "none" \/ word.end.kind = "none"
         THEN _validate_word_timings_loop(segment, segment_idx, words, n + 1, prev)
         ELSE validate_time_format(word.start, WordLoc(segment_idx, n - 1, "start"))
              \o validate_time_format(word.end, WordLoc(segment_idx, n - 1, "end"))
              \o validate_zero_duration(word.start, word.end, word.is_zero_duration,
                                        WordLoc(segment_idx, n - 1, ""))
              \o (IF segment.start.kind # "none" /\ NumLt(word.start, segment.start)
                  THEN <<Err("Word start time cannot be before segment start time",
                             WordLoc(segment_idx, n - 1, ""))>>
                  ELSE <<>>)
              \o (IF segment.end.kind # "none" /\ NumGt(word.end, segment.end)
                  THEN <<Err("Word end time cannot be after segment end time",
                             WordLoc(segment_idx, n - 1, ""))>>
                  ELSE <<>>)
              \o (IF prev.kind # "none" /\ NumLt(word.start, prev)
                  THEN <<Err("Words within segment must not overlap in time",
                             WordLoc(segment_idx, n - 1, ""))>>
                  ELSE <<>>)
              \o _validate_word_timings_loop(segment, segment_idx, words, n + 1,
                                             word.end)

_validate_word_timings(segment, segment_idx, words) ==
    _validate_word_timings_loop(segment, segment_idx, words, 1, NoneT)

RECURSIVE JoinWords(_)
\* " ".join(word.text for word in words)
JoinWords(words) ==
    IF words = <<>> THEN <<>>
    ELSE IF Len(words) = 1 THEN words[1].text.s
    ELSE words[1].text.s \o <<" ">> \o JoinWords(Tail(words))

\* the effective mode of validate_words_in_segment once word_timing_mode is
\* an enum member or None: a mode value, or <<>> for None
EffectiveMode(word_timing_mode, words) ==
    IF word_timing_mode.t # "none" THEN word_timing_mode.s
    ELSE CASE _determine_word_timing_mode(words) = "COMPLETE" -> COMPLETE
           [] _determine_word_timing_mode(words) = "NONE" -> NONE
           [] OTHER -> <<>>

\* the per-word checks of validate_words_in_segment ("Validate individual
\* words")
IndividualWord(word, word_location) ==
    (IF (word.start.kind # "none") # (word.end.kind # "none")
     THEN <<Err("If 'start' or 'end' is present in a word, both must be present.",
                word_location)>>
     ELSE <<>>)
    \o
    (IF HasTiming(word)
     THEN validate_time_format(word.start, [word_location EXCEPT !.field = "start"])
          \o validate_time_format(word.end, [word_location EXCEPT !.field = "end"])
          \o validate_zero_duration(word.start, word.end, word.is_zero_duration,
                                    word_location)
     ELSE IF Truthy(word.is_zero_duration)
          THEN <<Err("'is_zero_duration' must not be present when 'start' and 'end' are absent in a word.",
                     word_location)>>
          ELSE <<>>)

RECURSIVE ConcatN(_, _)
\* f[1] \o ... \o f[n]
ConcatN(f, n) == IF n = 0 THEN <<>> ELSE ConcatN(f, n - 1) \o f[n]

validate_words_in_segment(segment, segment_idx) ==
    LET words == WordsOf(segment)
        location == Loc("transcript.segments", segment_idx, NoIdx, "")
        mode_field == segment.word_timing_mode
    IN
    IF Truthy(segment.is_zero_duration)
    THEN (IF words # <<>>
          THEN <<Err("Zero-duration segment must not have 'words' array.", location)>>
          ELSE <<>>)
         \o
         \* an enum member and a non-empty string are truthy
         (IF mode_field.t = "enum" \/ (mode_field.t = "str" /\ mode_field.s # <<>>)
          THEN <<Err("Zero-duration segment must not have 'word_timing_mode'.",
                     location)>>
          ELSE <<>>)
    ELSE IF mode_field.t = "str" /\ Lower(mode_field.s) \notin WordTimingModeValues
    THEN <<Err("Invalid word_timing_mode",
               [location EXCEPT !.field = "word_timing_mode"])>>
    ELSE
    LET word_timing_mode ==
            IF mode_field.t = "str" THEN EnumMode(Lower(mode_field.s))
            ELSE mode_field
        effective_word_timing_mode == EffectiveMode(word_timing_mode, words)
    IN
    (IF word_timing_mode.t = "none"
        /\ _determine_word_timing_mode(words) = "INVALID"
     THEN <<Err("Incomplete word timing data requires explicit 'word_timing_mode: partial'",
                location)>>
     ELSE <<>>)
    \o
    (IF effective_word_timing_mode = COMPLETE
     THEN ConcatN([w \in DOMAIN words |->
               IF ~HasTiming(words[w])
               THEN <<Err("All words must have timing data when word_timing_mode is 'complete'",
                          WordLoc(segment_idx, w - 1, ""))>>
               ELSE <<>>], Len(words))
     ELSE <<>>)
    \o
    ConcatN([w \in DOMAIN words |->
                 IndividualWord(words[w], WordLoc(segment_idx, w - 1, ""))],
            Len(words))
    \o
    _validate_word_timings(segment, segment_idx, words)
    \o
    (IF effective_word_timing_mode = COMPLETE
        /\ Lower(JoinWords(words)) # Lower(segment.text.s)
     THEN <<Warn("Segment text does not match concatenated word texts", location)>>
     ELSE <<>>)

-----------------------------------------------------------------------------
(* validate_segments *)

SegLoc(idx, field) == Loc("transcript.segments", idx, NoIdx, field)

\* "if not start_issues and not end_issues"
SegmentFormatsOk(segment, idx) ==
    /\ validate_time_format(segment.start, SegLoc(idx, "start")) = <<>>
    /\ validate_time_format(segment.end, SegLoc(idx, "end")) = <<>>

OrderingCheck_bad(segment, idx, previous_end) ==
    IF idx > 0 /\ NumLt(segment.end, previous_end)
    THEN <<Err("Segments must not overlap and must be ordered by start time.",
               SegLoc(idx, ""))>>
    ELSE <<>>

\* "Check segment ordering and overlap": the second and third branch of the
\* if statement cannot add an issue
OrderingCheck(segment, idx, previous_end) ==
    IF idx > 0 /\ NumLt(segment.start, previous_end)
    THEN <<Err("Segments must not overlap and must be ordered by start time.",
               SegLoc(idx, ""))>>
    ELSE <<>>

SegmentTimeChecks_bad(segment, idx, previous_end) ==
    validate_time_format(segment.start, SegLoc(idx, "start"))
    \o validate_time_format(segment.end, SegLoc(idx, "end"))
    \o (IF SegmentFormatsOk(segment, idx)
        THEN OrderingCheck(segment, idx, previous_end)
        ELSE <<>>)

SegmentTimeChecks(segment, idx, previous_end) ==
    validate_time_format(segment.start, SegLoc(idx, "start"))
    \o validate_time_format(segment.end, SegLoc(idx, "end"))
    \o (IF SegmentFormatsOk(segment, idx)
        THEN validate_zero_duration(segment.start, segment.end,
                                    segment.is_zero_duration, SegLoc(idx, ""))
             \o OrderingCheck(segment, idx, previous_end)
        ELSE <<>>)

\* the body of the loop of validate_segments for the segment of index idx
SegmentBody(segment, idx, previous_end) ==
    LET has_start == segment.start.kind # "none"
        has_end == segment.end.kind # "none"
    IN (IF has_start # has_end
        THEN <<Err("If 'start' or 'end' is present, both must be present.",
                   SegLoc(idx, ""))>>
        ELSE <<>>)
       \o
       (IF has_start /\ has_end
        THEN SegmentTimeChecks(segment, idx, previous_end)
        ELSE IF Truthy(segment.is_zero_duration)
             THEN <<Err("'is_zero_duration' must not be present when 'start' and 'end' are absent.",
                        SegLoc(idx, ""))>>
             ELSE <<>>)
       \o validate_words_in_segment(segment, idx)
       \o (IF segment.style_id.t # "none"
           THEN validate_style_id(segment.style_id, SegLoc(idx, "style_id"))
           ELSE <<>>)
       \o (IF segment.speaker_id.t # "none"
           THEN validate_speaker_id(segment.speaker_id, SegLoc(idx, "speaker_id"))
           ELSE <<>>)
       \o (IF segment.language.t = "str" /\ segment.language.s # <<>>
           THEN validate_language_code(segment.language, SegLoc(idx, "language"))
           ELSE <<>>)

\* a loop that never records the end of a segment
NextPreviousEnd_bad(segment, idx, previous_end) == previous_end

\* previous_end after the segment of index idx
NextPreviousEnd(segment, idx, previous_end) ==
    IF segment.start.kind # "none" /\ segment.end.kind # "none"
       /\ SegmentFormatsOk(segment, idx)
    THEN segment.end
    ELSE previous_end

RECURSIVE validate_segments_loop(_, _, _)
validate_segments_loop(segments, n, previous_end) ==
    IF n > Len(segments) THEN <<>>
    ELSE SegmentBody(segments[n], n - 1, previous_end)
         \o validate_segments_loop(segments, n + 1,
                NextPreviousEnd(segments[n], n - 1, previous_end))

\* previous_end = -1.0
InitialPreviousEnd == FloatT(TRUE, 1, 0)

validate_segments(transcript) ==
    validate_segments_loop(transcript.segments, 1, InitialPreviousEnd)

-----------------------------------------------------------------------------
(* validate_transcript.  A transcript is                                   *)
(*   [t |-> "none" | "obj", invalid_segments_type, segments, speakers,     *)
(*    styles |-> [t |-> "none" | "list", items]]                           *)

validate_transcript(transcript) ==
    IF transcript.t = "none"
    THEN <<Err("Missing required field: 'transcript'", NoLoc)>>
    ELSE IF transcript.invalid_segments_type
    THEN <<Err("segments must be an array",
               Loc("transcript.segments", NoIdx, NoIdx, ""))>>
    ELSE (IF transcript.segments = <<>>
          THEN <<Err("transcript.segments cannot be empty",
                     Loc("transcript.segments", NoIdx, NoIdx, ""))>>
          ELSE validate_segments(transcript))
         \o validate_speakers(transcript)
         \o validate_styles(transcript)

-----------------------------------------------------------------------------
(* validate_types, for the fields the model holds.  The unexpected-field   *)
(* checks cannot fire on a dataclass instance and are left out.            *)

_validate_required_field_str(value, location) ==
    IF value.t = "none" THEN <<Err("Missing required field", location)>>
    ELSE IF value.t # "str" THEN <<Err("Field must be of type str", location)>>
    ELSE <<>>

\* _validate_required_field(value, (int, float), ...): bool is an int,
\* Decimal is accepted
_validate_required_field_num(value, location) ==
    IF value.kind = "none" THEN <<Err("Missing required field", location)>>
    ELSE IF value.kind \notin {"int", "float", "bool", "decimal"}
    THEN <<Err("Field must be of type int or float", location)>>
    ELSE <<>>

_validate_non_empty_string(value, location, required) ==
    IF required /\ (value.t = "none" \/ (value.t = "str" /\ value.s = <<>>))
    THEN <<Err("Field is required and must be a non-empty string", location)>>
    ELSE IF value.t # "none" /\ (value.t # "str" \/ IsBlank(value.s))
    THEN <<Err("Field must be a non-empty string", location)>>
    ELSE <<>>

\* _validate_optional_field(value, (int, float), ...) raises AttributeError
\* when it has to report: a tuple has no __name__
OptionalNumRaises(value) ==
    value.kind \notin {"none", "int", "float", "bool"}

_validate_speaker(speaker, idx) ==
    _validate_required_field_str(speaker.id, Loc("transcript.speakers", idx, NoIdx, "id"))
    \o _validate_non_empty_string(speaker.id,
                                  Loc("transcript.speakers", idx, NoIdx, "id"), TRUE)

_validate_style(style, idx) ==
    _validate_required_field_str(style.id, Loc("transcript.styles", idx, NoIdx, "id"))
    \o _validate_non_empty_string(style.id,
                                  Loc("transcript.styles", idx, NoIdx, "id"), TRUE)
    \o (IF style.id.t # "none" /\ ~MatchesIdPattern(style.id.s)
        THEN <<Err("Invalid style ID format", Loc("transcript.styles", idx, NoIdx, "id"))>>
        ELSE <<>>)

_validate_word(word, location) ==
    _validate_required_field_str(word.text, [location EXCEPT !.field = "text"])
    \o _validate_non_empty_string(word.text, [location EXCEPT !.field = "text"], TRUE)
    \o (IF (word.start.kind # "none") # (word.end.kind # "none")
        THEN <<Err("If 'start' or 'end' is present in a word, both must be present.",
                   location)>>
        ELSE IF HasTiming(word)
        THEN _validate_required_field_num(word.start, [location EXCEPT !.field = "start"])
             \o _validate_required_field_num(word.end, [location EXCEPT !.field = "end"])
        ELSE <<>>)

_validate_language(lang, location) ==
    (IF lang.t \notin {"none", "str"}
     THEN <<Err("Field must be of type str if present", location)>>
     ELSE <<>>)
    \o _validate_non_empty_string(lang, location, TRUE)
    \o (IF lang.t # "none" THEN validate_language_code(lang, location) ELSE <<>>)

\* _validate_list_field(codes, location, issues, _validate_language, ...)
LanguageListTypes(list, root) ==
    ConcatN([i \in DOMAIN list |->
                 _validate_language(list[i], Loc(root, i - 1, NoIdx, ""))],
            Len(list))

SegmentTypes(segment, idx) ==
    _validate_non_empty_string(segment.text, SegLoc(idx, "text"), TRUE)
    \o (IF (segment.start.kind # "none") # (segment.end.kind # "none")
        THEN <<Err("If 'start' or 'end' is present, both must be present.",
                   SegLoc(idx, ""))>>
        ELSE IF segment.start.kind # "none"
        THEN _validate_required_field_num(segment.start, SegLoc(idx, "start"))
             \o _validate_required_field_num(segment.end, SegLoc(idx, "end"))
        ELSE <<>>)
    \o _validate_non_empty_string(segment.speaker_id, SegLoc(idx, "speaker_id"), FALSE)
    \o _validate_non_empty_string(segment.style_id, SegLoc(idx, "style_id"), FALSE)
    \o _validate_non_empty_string(segment.language, SegLoc(idx, "language"), FALSE)
    \o (IF segment.words.t = "none" THEN <<>>
        ELSE (IF segment.words.items = <<>>
              THEN <<Err("Field must not be empty",
                         Loc("transcript.segments", idx, NoIdx, "words"))>>
              ELSE <<>>)
             \o ConcatN([w \in DOMAIN segment.words.items |->
                            _validate_word(segment.words.items[w],
                                           WordLoc(idx, w - 1, ""))],
                        Len(segment.words.items)))

MetadataTypes(metadata) ==
    IF metadata.t = "none" THEN <<>>
    ELSE (IF metadata.transcriber.t # "none" /\ metadata.transcriber.name.t # "none"
          THEN _validate_non_empty_string(metadata.transcriber.name,
                   Loc("metadata.transcriber.name", NoIdx, NoIdx, ""), FALSE)
          ELSE <<>>)
         \o (IF metadata.source.t # "none" /\ metadata.source.languages.t # "none"
             THEN LanguageListTypes(metadata.source.languages.items,
                                    "metadata.source.languages")
             ELSE <<>>)
         \o (IF metadata.languages.t # "none"
             THEN LanguageListTypes(metadata.languages.items, "metadata.languages")
             ELSE <<>>)

\* some _validate_optional_field(..., (int, float), ...) of validate_types
\* raises
validate_types_raises(doc) ==
    /\ doc.transcript.t # "none"
    /\ \E i \in DOMAIN doc.transcript.segments :
         \/ OptionalNumRaises(doc.transcript.segments[i].confidence)
         \/ \E w \in DOMAIN WordsOf(doc.transcript.segments[i]) :
              OptionalNumRaises(WordsOf(doc.transcript.segments[i])[w].confidence)

validate_types(doc) ==
    (IF doc.version.t # "str" \/ doc.version.s = <<>>
     THEN <<Err("Missing or invalid 'stj.version'",
                Loc("stj.version", NoIdx, NoIdx, ""))>>
     ELSE <<>>)
    \o
    (IF doc.transcript.t = "none"
     THEN <<Err("Missing required field: 'transcript'",
                Loc("stj.transcript", NoIdx, NoIdx, ""))>>
     ELSE LET transcript == doc.transcript IN
          ConcatN([i \in DOMAIN transcript.speakers |->
                       _validate_speaker(transcript.speakers[i], i - 1)],
                  Len(transcript.speakers))
          \o (IF transcript.styles.t = "none" THEN <<>>
              ELSE ConcatN([i \in DOMAIN transcript.styles.items |->
                               _validate_style(transcript.styles.items[i], i - 1)],
                           Len(transcript.styles.items)))
          \o ConcatN([i \in DOMAIN transcript.segments |->
                          SegmentTypes(transcript.segments[i], i - 1)],
                     Len(transcript.segments))
          \o MetadataTypes(doc.metadata))

-----------------------------------------------------------------------------
(* validate_references *)

IdsOf(items) == {items[i].id : i \in DOMAIN items}

\* "if segment.speaker_id": a non-empty string
TruthyStr(v) == v.t = "str" /\ v.s # <<>>

SegmentReferences(segment, idx, speaker_ids, style_ids) ==
    (IF TruthyStr(segment.speaker_id) /\ segment.speaker_id \notin speaker_ids
     THEN <<Err("Invalid speaker_id reference", SegLoc(idx, "speaker_id"))>>
     ELSE <<>>)
    \o
    (IF TruthyStr(segment.style_id) /\ segment.style_id \notin style_ids
     THEN <<Err("Invalid style_id reference", SegLoc(idx, "style_id"))>>
     ELSE <<>>)

validate_references(transcript) ==
    IF transcript.t = "none" THEN <<>>
    ELSE LET speaker_ids == IdsOf(transcript.speakers)
             style_ids == IF transcript.styles.t = "none" THEN {}
                          ELSE IdsOf(transcript.styles.items)
         IN ConcatN([i \in DOMAIN transcript.segments |->
                        SegmentReferences(transcript.segments[i], i - 1,
                                          speaker_ids, style_ids)],
                    Len(transcript.segments))

-----------------------------------------------------------------------------
(* validate_metadata, validate_language_codes, for the fields the model   *)
(* holds                                                                   *)

_validate_language_code_list(codes, root) ==
    ConcatN([i \in DOMAIN codes |->
                 validate_language_code(codes[i], Loc(root, i - 1, NoIdx, ""))],
            Len(codes))

\* "if metadata.languages": a non-empty list
TruthyList(l) == l.t = "list" /\ l.items # <<>>

validate_metadata(metadata) ==
    IF metadata.t = "none" THEN <<>>
    ELSE (IF metadata.transcriber.t # "none"
             /\ TruthyStr(metadata.transcriber.name)
             /\ IsBlank(metadata.transcriber.name.s)
          THEN <<Err("'transcriber.name' must not be empty or whitespace.",
                     Loc("metadata.transcriber.name", NoIdx, NoIdx, ""))>>
          ELSE <<>>)
         \o (IF metadata.source.t # "none" /\ TruthyList(metadata.source.languages)
             THEN _validate_language_code_list(metadata.source.languages.items,
                                               "metadata.source.languages")
             ELSE <<>>)
         \o (IF TruthyList(metadata.languages)
             THEN _validate_language_code_list(metadata.languages.items,
                                               "metadata.languages")
             ELSE <<>>)

validate_language_codes(metadata, transcript) ==
    (IF metadata.t = "none" THEN <<>>
     ELSE (IF TruthyList(metadata.languages)
           THEN _validate_language_code_list(metadata.languages.items,
                                             "metadata.languages")
           ELSE <<>>)
          \o (IF metadata.source.t # "none" /\ TruthyList(metadata.source.languages)
              THEN _validate_language_code_list(metadata.source.languages.items,
                                                "metadata.source.languages")
              ELSE <<>>))
    \o
    (IF transcript.t = "none" THEN <<>>
     ELSE ConcatN([i \in DOMAIN transcript.segments |->
                      IF TruthyStr(transcript.segments[i].language)
                      THEN validate_language_code(transcript.segments[i].language,
                                                  SegLoc(i - 1, "language"))
                      ELSE <<>>],
                  Len(transcript.segments)))

-----------------------------------------------------------------------------
(* validate_confidence_scores *)

ZeroT == FloatT(FALSE, 0, 0)
OneT == FloatT(FALSE, 1, 0)

\* not (0.0 <= confidence <= 1.0)
OutOfRange(c) == NumLt(c, ZeroT) \/ NumGt(c, OneT)

validate_confidence_scores(transcript) ==
    IF transcript.t = "none" THEN <<>>
    ELSE ConcatN([i \in DOMAIN transcript.segments |->
            LET segment == transcript.segments[i]
                words == WordsOf(segment)
            IN (IF segment.confidence.kind # "none" /\ OutOfRange(segment.confidence)
                THEN <<Err("Segment confidence out of range [0.0, 1.0]",
                           SegLoc(i - 1, "confidence"))>>
                ELSE <<>>)
               \o ConcatN([w \in DOMAIN words |->
                      IF words[w].confidence.kind # "none"
                         /\ OutOfRange(words[w].confidence)
                      THEN <<Err("Word confidence out of range [0.0, 1.0]",
                                 WordLoc(i - 1, w - 1, "confidence"))>>
                      ELSE <<>>], Len(words))],
            Len(transcript.segments))

-----------------------------------------------------------------------------
(* validate_language_consistency *)

\* Lang(code) succeeds
LangResolves(code) == code.t = "str" /\ (IsPt1(code.s) \/ IsPt3(code.s))

\* Lang(code).name.lower()
LangName(c) ==
    CASE c \in {EN, ENG} -> "english"
      [] c \in {FR, FRA} -> "french"
      [] OTHER -> "yue chinese"

\* the (code, source) pairs handed to track_codes, in call order
Usages(metadata, transcript) ==
    (IF metadata.t = "none" THEN <<>>
     ELSE (IF TruthyList(metadata.languages)
           THEN [i \in DOMAIN metadata.languages.items |->
                    [code |-> metadata.languages.items[i],
                     source |-> Loc("metadata.languages", NoIdx, NoIdx, "")]]
           ELSE <<>>)
          \o (IF metadata.source.t # "none" /\ TruthyList(metadata.source.languages)
              THEN [i \in DOMAIN metadata.source.languages.items |->
                       [code |-> metadata.source.languages.items[i],
                        source |-> Loc("metadata.source.languages", NoIdx, NoIdx, "")]]
              ELSE <<>>))
    \o
    (IF transcript.t = "none" THEN <<>>
     ELSE ConcatN([i \in DOMAIN transcript.segments |->
                      IF TruthyStr(transcript.segments[i].language)
                      THEN <<[code |-> transcript.segments[i].language,
                              source |-> SegLoc(i - 1, "language")]>>
                      ELSE <<>>],
                  Len(transcript.segments)))

\* the issues track_codes appends
track_codes(usages) ==
    ConcatN([i \in DOMAIN usages |->
                IF LangResolves(usages[i].code) /\ Len(usages[i].code.s) = 3
                   /\ Pt1Of(usages[i].code.s) # <<>>
                THEN <<Err("Must use ISO 639-1 code instead of ISO 639-3 code",
                           usages[i].source)>>
                ELSE <<>>],
            Len(usages))

RECURSIVE LanguageKeys(_, _, _)
\* the keys of language_code_map in insertion order
LanguageKeys(usages, n, seen) ==
    IF n > Len(usages) THEN <<>>
    ELSE IF LangResolves(usages[n].code) /\ LangName(usages[n].code.s) \notin seen
    THEN <<LangName(usages[n].code.s)>>
         \o LanguageKeys(usages, n + 1, seen \cup {LangName(usages[n].code.s)})
    ELSE LanguageKeys(usages, n + 1, seen)

\* "Inconsistent language codes used for '{language}': ..."
InconsistentMessage(language) ==
    CASE language = "english" -> "Inconsistent language codes used for 'english'"
      [] language = "french" -> "Inconsistent language codes used for 'french'"
      [] OTHER -> "Inconsistent language codes used for 'yue chinese'"

LanguageEntry_bad(usages, language) ==
    LET mine == {i \in DOMAIN usages : LangResolves(usages[i].code)
                                        /\ LangName(usages[i].code.s) = language}
        codes == {usages[i].code.s : i \in mine}
        locations == {usages[i].source : i \in {m \in mine : Len(usages[m].code.s) = 3}}
        has_part1 == \E c \in codes : Len(c) = 2
        has_part3 == \E c \in codes : Len(c) = 3
    IN IF has_part1 /\ has_part3
       THEN <<Issue(InconsistentMessage(language), locations, "ERROR")>>
       ELSE IF Cardinality(codes) > 1
       THEN <<Issue(InconsistentMessage(language), locations, "ERROR")>>
       ELSE <<>>

\* "Check for inconsistencies", for one entry of language_code_map
LanguageEntry(usages, language) ==
    LET mine == {i \in DOMAIN usages : LangResolves(usages[i].code)
                                        /\ LangName(usages[i].code.s) = language}
        codes == {usages[i].code.s : i \in mine}
        locations == {usages[i].source : i \in mine}
        has_part1 == \E c \in codes : Len(c) = 2
        has_part3 == \E c \in codes : Len(c) = 3
    IN IF has_part1 /\ has_part3
       THEN <<Issue(InconsistentMessage(language), locations, "ERROR")>>
       ELSE IF Cardinality(codes) > 1
       THEN <<Issue(InconsistentMessage(language), locations, "ERROR")>>
       ELSE <<>>

validate_language_consistency(metadata, transcript) ==
    LET usages == Usages(metadata, transcript)
        keys == LanguageKeys(usages, 1, {})
    IN track_codes(usages)
       \o ConcatN([k \in DOMAIN keys |-> LanguageEntry(usages, keys[k])],
                  Len(keys))

-----------------------------------------------------------------------------
(* validate_all_extensions.  The documents of this model carry no         *)
(* extensions field, so every "if x.extensions" test of the function      *)
(* fails.                                                                  *)

validate_all_extensions(doc) == <<>>

-----------------------------------------------------------------------------
(* STJ.from_dict and the from_dict methods it calls.  The parsed JSON     *)
(* value is held in the shape of the document, with these marks:          *)
(*   transcript.t = "bad"   the value under "transcript" is not a dict    *)
(*   segment.is_dict        the entry of "segments" is a dict             *)
(*   words.t = "bad"        the value under "words" cannot be iterated    *)
(*   word.is_dict           the entry of "words" is a dict                *)
(*   word_timing_mode       a string, or "none" for an absent key         *)
(*   a "none" version, segment text, word text or speaker/style id is an  *)
(*   absent key                                                            *)

\* Word.from_dict raises: data.get on a non-dict, data["text"] on a dict
\* without the key
WordFromDictRaises(w) == ~w.is_dict \/ w.text.t = "none"

SegmentFromDictRaises(seg) ==
    /\ seg.is_dict
    /\ \/ seg.word_timing_mode.t # "none"
          /\ ~(seg.word_timing_mode.t = "str"
               /\ seg.word_timing_mode.s \in WordTimingModeValues)
       \/ seg.words.t = "bad"
       \/ seg.words.t = "list"
          /\ \E w \in DOMAIN seg.words.items : WordFromDictRaises(seg.words.items[w])

from_dict_raises(data) ==
    /\ ~data.invalid_type
    /\ \/ data.transcript.t = "bad"
       \/ /\ data.transcript.t = "obj"
          /\ ~data.transcript.invalid_segments_type
          /\ \/ \E i \in DOMAIN data.transcript.segments :
                   SegmentFromDictRaises(data.transcript.segments[i])
             \/ \E i \in DOMAIN data.transcript.speakers :
                   data.transcript.speakers[i].id.t = "none"
             \/ /\ data.transcript.styles.t = "list"
                /\ \E i \in DOMAIN data.transcript.styles.items :
                      data.transcript.styles.items[i].id.t = "none"

EmptySegment ==
    [is_dict |-> TRUE, text |-> Str(<<>>), start |-> NoneT, end |-> NoneT,
     is_zero_duration |-> "none", speaker_id |-> NoneS, style_id |-> NoneS,
     language |-> NoneS, confidence |-> NoneT, word_timing_mode |-> NoMode,
     words |-> [t |-> "none", items |-> <<>>]]

\* Optional[Segment]: None, or a Segment object
NoSegment == [t |-> "none", segment |-> EmptySegment]
SomeSegment(segment) == [t |-> "obj", segment |-> segment]

\* no earlier validate_stj call has returned
NoFirst == [called |-> FALSE, issues |-> <<>>]

\* Segment.from_dict
SegmentFromDict(seg) ==
    IF ~seg.is_dict THEN EmptySegment
    ELSE [seg EXCEPT
            !.text = IF seg.text.t = "none" THEN Str(<<>>) ELSE seg.text,
            !.word_timing_mode =
                IF seg.word_timing_mode.t = "str"
                THEN EnumMode(seg.word_timing_mode.s)
                ELSE seg.word_timing_mode]

\* _deserialize_languages: an empty list becomes None
_deserialize_languages(l) ==
    IF l.t = "list" /\ l.items = <<>> THEN [t |-> "none", items |-> <<>>] ELSE l

MetadataFromDict(m) ==
    IF m.t = "none" THEN m
    ELSE [m EXCEPT
            !.languages = _deserialize_languages(m.languages),
            !.source = IF m.source.t = "none" THEN m.source
                       ELSE [m.source EXCEPT
                               !.languages = _deserialize_languages(m.source.languages)]]

NoTranscript ==
    [t |-> "none", invalid_segments_type |-> FALSE, segments |-> <<>>,
     speakers |-> <<>>, styles |-> [t |-> "none", items |-> <<>>]]

TranscriptFromDict(tr) ==
    IF tr.t = "none" THEN tr
    ELSE IF tr.invalid_segments_type
    THEN [NoTranscript EXCEPT !.t = "obj", !.invalid_segments_type = TRUE]
    ELSE [tr EXCEPT
            !.segments = [i \in DOMAIN tr.segments |-> SegmentFromDict(tr.segments[i])]]

\* the STJ object from_dict returns when it does not raise
from_dict(data) ==
    IF data.invalid_type
    THEN [data EXCEPT !.version = Str(<<>>), !.transcript = NoTranscript,
                      !.metadata = [data.metadata EXCEPT !.t = "none"],
                      !.additional_fields = {}]
    ELSE [data EXCEPT
            !.version = IF data.version.t = "none" THEN Str(<<>>) ELSE data.version,
            !.metadata = MetadataFromDict(data.metadata),
            !.transcript = TranscriptFromDict(data.transcript)]

-----------------------------------------------------------------------------
(* validate_stj as a state machine: one action per phase.  pc is the      *)
(* position in validate_stj ("from_dict" before the object is built,      *)
(* "done" after the return, "raised" after an exception), issues the      *)
(* list under construction, ran the set of validators called so far.      *)

\* "if issues: return issues" after validate_root_structure
AfterRoot(iss) == IF iss # <<>> THEN "done" ELSE "version"

AfterVersion_bad(iss) == "transcript"

\* "if issues: return issues" after validate_version
AfterVersion(iss) == IF iss # <<>> THEN "done" ELSE "transcript"

\* "if not issues:" after validate_transcript
AfterTranscript(iss) == IF iss = <<>> THEN "types" ELSE "done"

FromDict ==
    /\ pc = "from_dict"
    /\ IF from_dict_raises(stj)
       THEN pc' = "raised" /\ stj' = stj
       ELSE pc' = "root" /\ stj' = from_dict(stj)
    /\ UNCHANGED <<issues, ran, targ, zarg, heap, stack, recovery, first>>

RootStructure ==
    /\ pc = "root"
    /\ issues' = issues \o validate_root_structure(stj)
    /\ ran' = ran \cup {"validate_root_structure"}
    /\ pc' = AfterRoot(issues')
    /\ UNCHANGED <<stj, targ, zarg, heap, stack, recovery, first>>

Version ==
    /\ pc = "version"
    /\ issues' = issues \o validate_version(stj.version)
    /\ ran' = ran \cup {"validate_version"}
    /\ pc' = AfterVersion(issues')
    /\ UNCHANGED <<stj, targ, zarg, heap, stack, recovery, first>>

\* a transcript phase that consumes the segment list it walks
TranscriptPhase_bad ==
    /\ pc = "transcript"
    /\ issues' = issues \o validate_transcript(stj.transcript)
    /\ ran' = ran \cup {"validate_transcript"}
    /\ pc' = AfterTranscript(issues')
    /\ stj' = [stj EXCEPT !.transcript.segments = <<>>]
    /\ UNCHANGED <<targ, zarg, heap, stack, recovery, first>>

TranscriptPhase ==
    /\ pc = "transcript"
    /\ issues' = issues \o validate_transcript(stj.transcript)
    /\ ran' = ran \cup {"validate_transcript"}
    /\ pc' = AfterTranscript(issues')
    /\ UNCHANGED <<stj, targ, zarg, heap, stack, recovery, first>>

TypesPhase ==
    /\ pc = "types"
    /\ ran' = ran \cup {"validate_types"}
    /\ IF validate_types_raises(stj)
       THEN pc' = "raised" /\ issues' = issues
       ELSE pc' = "references" /\ issues' = issues \o validate_types(stj)
    /\ UNCHANGED <<stj, targ, zarg, heap, stack, recovery, first>>

ReferencesPhase ==
    /\ pc = "references"
    /\ issues' = issues \o validate_references(stj.transcript)
    /\ ran' = ran \cup {"validate_references"}
    /\ pc' = "metadata"
    /\ UNCHANGED <<stj, targ, zarg, heap, stack, recovery, first>>

\* "if stj.metadata: issues.extend(validate_metadata(stj.metadata))"
MetadataPhase ==
    /\ pc = "metadata"
    /\ IF stj.metadata.t # "none"
       THEN /\ issues' = issues \o validate_metadata(stj.metadata)
            /\ ran' = ran \cup {"validate_metadata"}
       ELSE UNCHANGED <<issues, ran>>
    /\ pc' = "language_codes"
    /\ UNCHANGED <<stj, targ, zarg, heap, stack, recovery, first>>

LanguageCodesPhase ==
    /\ pc = "language_codes"
    /\ issues' = issues \o validate_language_codes(stj.metadata, stj.transcript)
    /\ ran' = ran \cup {"validate_language_codes"}
    /\ pc' = "language_consistency"
    /\ UNCHANGED <<stj, targ, zarg, heap, stack, recovery, first>>

LanguageConsistencyPhase ==
    /\ pc = "language_consistency"
    /\ issues' = issues \o validate_language_consistency(stj.metadata, stj.transcript)
    /\ ran' = ran \cup {"validate_language_consistency"}
    /\ pc' = "confidence"
    /\ UNCHANGED <<stj, targ, zarg, heap, stack, recovery, first>>

ConfidencePhase ==
    /\ pc = "confidence"
    /\ issues' = issues \o validate_confidence_scores(stj.transcript)
    /\ ran' = ran \cup {"validate_confidence_scores"}
    /\ pc' = "extensions"
    /\ UNCHANGED <<stj, targ, zarg, heap, stack, recovery, first>>

ExtensionsPhase ==
    /\ pc = "extensions"
    /\ issues' = issues \o validate_all_extensions(stj)
    /\ ran' = ran \cup {"validate_all_extensions"}
    /\ pc' = "done"
    /\ UNCHANGED <<stj, targ, zarg, heap, stack, recovery, first>>

Next ==
    \/ FromDict
    \/ RootStructure
    \/ Version
    \/ TranscriptPhase
    \/ TypesPhase
    \/ ReferencesPhase
    \/ MetadataPhase
    \/ LanguageCodesPhase
    \/ LanguageConsistencyPhase
    \/ ConfidencePhase
    \/ ExtensionsPhase

\* the caller keeps the returned list and calls validate_stj on the same
\* document once more
SecondCall ==
    /\ pc = "done"
    /\ "validate_root_structure" \in ran
    /\ ~first.called
    /\ first' = [called |-> TRUE, issues |-> issues]
    /\ issues' = <<>>
    /\ ran' = {}
    /\ pc' = "root"
    /\ UNCHANGED <<stj, targ, zarg, heap, stack, recovery>>

NextTwice == Next \/ SecondCall

-----------------------------------------------------------------------------
(* Direct calls of single validators *)

CallLocation == Loc("transcript.segments", 0, NoIdx, "start")

TimeFormatCall ==
    /\ pc = "time_call"
    /\ issues' = validate_time_format(targ, CallLocation)
    /\ ran' = ran \cup {"validate_time_format"}
    /\ pc' = "done"
    /\ UNCHANGED <<stj, targ, zarg, heap, stack, recovery, first>>

NextTime == TimeFormatCall

ZeroDurationCall ==
    /\ pc = "zero_call"
    /\ issues' = validate_zero_duration(zarg.start, zarg.end, zarg.flag, CallLocation)
    /\ ran' = ran \cup {"validate_zero_duration"}
    /\ pc' = "done"
    /\ UNCHANGED <<stj, targ, zarg, heap, stack, recovery, first>>

NextZero == ZeroDurationCall

LanguageConsistencyCall ==
    /\ pc = "language_call"
    /\ issues' = validate_language_consistency(stj.metadata, stj.transcript)
    /\ ran' = ran \cup {"validate_language_consistency"}
    /\ pc' = "done"
    /\ UNCHANGED <<stj, targ, zarg, heap, stack, recovery, first>>

NextLanguage == LanguageConsistencyCall

-----------------------------------------------------------------------------
(* validate_extensions.  The namespace maps are objects of a heap, so that *)
(* a nested "extensions" value can be a map that encloses it: heap[id] is  *)
(* the sequence of the items of the dict in iteration order, an item being *)
(*   [key, is_dict, nested |-> [t |-> "absent" | "none" | "bad" | "ref",   *)
(*                              id]]                                       *)
(* where is_dict tells whether the value is a dict and nested describes    *)
(* value["extensions"] ("bad": neither a dict nor None).  Keys are         *)
(* strings.  The recursion is a stack of frames, one per running call:     *)
(*   [obj, pos, parent_namespaces, location]                               *)
(* with obj = NoneObj for a call whose extensions argument is None and pos *)
(* the position of the next item of the for loop.  A location is the       *)
(* sequence of the names appended to "metadata.extensions"; the message of *)
(* an issue is the pair of its fixed text and of the names it quotes.      *)

NoHeap == <<>>
NoneObj == 0
RootObj == 1

Item(key, is_dict, nested) == [key |-> key, is_dict |-> is_dict, nested |-> nested]
Absent == [t |-> "absent", id |-> NoneObj]
NestedNone == [t |-> "none", id |-> NoneObj]
NestedBad == [t |-> "bad", id |-> NoneObj]
Ref(id) == [t |-> "ref", id |-> id]

Frame(obj, parent_namespaces, location) ==
    [obj |-> obj, pos |-> 1, parent_namespaces |-> parent_namespaces,
     location |-> location]

EXTENSIONS == <<"e", "x", "t", "e", "n", "s", "i", "o", "n", "s">>

ExtLoc(path) == Loc("metadata.extensions", NoIdx, NoIdx, path)

ExtErr(text, names, path) == Err(<<text, names>>, ExtLoc(path))

RESERVED_NAMESPACES ==
    {<<"s", "t", "j">>, <<"w", "e", "b", "v", "t", "t">>, <<"t", "t", "m", "l">>,
     <<"s", "s", "a">>, <<"s", "r", "t">>, <<"d", "f", "x", "p">>,
     <<"s", "m", "p", "t", "e", "t", "t">>}

\* NAMESPACE_PATTERN  ^[a-z0-9\-]+$
MatchesNamespacePattern(s) ==
    /\ Len(s) >= 1
    /\ \A i \in DOMAIN s : s[i] \in Range(LowerLetters) \cup Range(Digits) \cup {"-"}

\* the deepest stack the model follows
MaxDepth == 6

IsCircular_bad(namespace, parent_namespaces) ==
    parent_namespaces # <<>> /\ namespace = parent_namespaces[Len(parent_namespaces)]

\* "if namespace in parent_namespaces"
IsCircular(namespace, parent_namespaces) == namespace \in Range(parent_namespaces)

NestedParents_bad(parent_namespaces, namespace) == parent_namespaces

\* current_namespace_path, the parent_namespaces of the nested call
NestedParents(parent_namespaces, namespace) == parent_namespaces \o <<namespace>>

\* the issues of one item that is not a circular reference
ItemIssues(item, namespace_location) ==
    (IF item.key = <<>>
     THEN <<ExtErr("Invalid extension namespace. Namespaces must be non-empty strings.",
                   <<item.key>>, namespace_location)>>
     ELSE <<>>)
    \o (IF item.key \in RESERVED_NAMESPACES
        THEN <<ExtErr("Reserved namespace cannot be used", <<item.key>>,
                      namespace_location)>>
        ELSE <<>>)
    \o (IF ~item.is_dict
        THEN <<ExtErr("Extension value for namespace must be an object", <<item.key>>,
                      namespace_location)>>
        ELSE <<>>)

TopFrame == stack[Len(stack)]

\* the call validate_extensions(extensions, "metadata.extensions")
ExtensionsCall ==
    /\ pc = "ext_call"
    /\ stack' = <<Frame(RootObj, <<>>, <<>>)>>
    /\ ran' = ran \cup {"validate_extensions"}
    /\ pc' = "ext_loop"
    /\ UNCHANGED <<stj, issues, targ, zarg, heap, recovery, first>>

\* one iteration of "for namespace, value in extensions.items()"
ExtensionsItem ==
    /\ pc = "ext_loop"
    /\ stack # <<>>
    /\ TopFrame.obj # NoneObj
    /\ TopFrame.pos <= Len(heap[TopFrame.obj])
    /\ LET frame == TopFrame
           item == heap[frame.obj][frame.pos]
           namespace == item.key
           current_namespace_path == NestedParents(frame.parent_namespaces, namespace)
           namespace_location == Append(frame.location, namespace)
           advanced == [stack EXCEPT ![Len(stack)].pos = frame.pos + 1]
       IN IF IsCircular(namespace, frame.parent_namespaces)
          THEN /\ issues' = Append(issues,
                       ExtErr("Circular reference detected in extensions",
                              Append(frame.parent_namespaces, namespace),
                              namespace_location))
               /\ stack' = advanced
               /\ pc' = pc
          ELSE /\ issues' = issues \o ItemIssues(item, namespace_location)
               /\ IF ~item.is_dict \/ item.nested.t = "absent"
                  THEN stack' = advanced /\ pc' = pc
                  ELSE IF item.nested.t = "bad"
                  \* nested_extensions.items() on a value that is not a dict
                  THEN stack' = stack /\ pc' = "raised"
                  ELSE /\ Len(stack) < MaxDepth
                       /\ stack' = Append(advanced,
                              Frame(item.nested.id, current_namespace_path,
                                    Append(namespace_location, EXTENSIONS)))
                       /\ pc' = pc
    /\ UNCHANGED <<stj, ran, targ, zarg, heap, recovery, first>>

\* a return that leaves the namespace of the finished call on the list of
\* the caller
ExtensionsReturn_bad ==
    /\ pc = "ext_loop"
    /\ stack # <<>>
    /\ (TopFrame.obj # NoneObj => TopFrame.pos > Len(heap[TopFrame.obj]))
    /\ issues' = IF TopFrame.obj = NoneObj
                 THEN Append(issues, ExtErr("Extensions must be an object", <<>>,
                                            TopFrame.location))
                 ELSE issues
    /\ stack' = [k \in 1..(Len(stack) - 1) |->
                    IF k = Len(stack) - 1
                    THEN [stack[k] EXCEPT !.parent_namespaces = TopFrame.parent_namespaces]
                    ELSE stack[k]]
    /\ pc' = IF Len(stack) = 1 THEN "done" ELSE pc
    /\ UNCHANGED <<stj, ran, targ, zarg, heap, recovery, first>>

\* "return issues": at the end of the loop, or at once when extensions is
\* None
ExtensionsReturn ==
    /\ pc = "ext_loop"
    /\ stack # <<>>
    /\ (TopFrame.obj # NoneObj => TopFrame.pos > Len(heap[TopFrame.obj]))
    /\ issues' = IF TopFrame.obj = NoneObj
                 THEN Append(issues, ExtErr("Extensions must be an object", <<>>,
                                            TopFrame.location))
                 ELSE issues
    /\ stack' = SubSeq(stack, 1, Len(stack) - 1)
    /\ pc' = IF Len(stack) = 1 THEN "done" ELSE pc
    /\ UNCHANGED <<stj, ran, targ, zarg, heap, recovery, first>>

NextExtensions ==
    \/ ExtensionsCall
    \/ ExtensionsItem
    \/ ExtensionsReturn

-----------------------------------------------------------------------------
(* Documents *)

MaxSegs == 2
MaxWords == 2
MaxTime == 3
MaxCoef == 11
MaxExp == 3
MaxPlaces == 8
MaxZeroCoef == 5

\* the float n.0
Seconds(n) == FloatT(FALSE, n, 0)
\* -1.0, which validate_time_format rejects
BadTime == FloatT(TRUE, 1, 0)
\* 1.0005, which has too many decimal places
LongTime == FloatT(FALSE, 10005, -4)

NoList == [t |-> "none", items |-> <<>>]
List(items) == [t |-> "list", items |-> items]

MkWord(text, start, end, flag) ==
    [is_dict |-> TRUE, text |-> text, start |-> start, end |-> end,
     is_zero_duration |-> flag, confidence |-> NoneT]

MkSegment(text, start, end, flag) ==
    [EmptySegment EXCEPT !.text = text, !.start = start, !.end = end,
                         !.is_zero_duration = flag]

MkTranscript(segments, speakers, styles) ==
    [t |-> "obj", invalid_segments_type |-> FALSE, segments |-> segments,
     speakers |-> speakers, styles |-> styles]

NoMetadata ==
    [t |-> "none", transcriber |-> [t |-> "none", name |-> NoneS],
     languages |-> NoList, source |-> [t |-> "none", languages |-> NoList]]

MkMetadata(transcriber_name, languages) ==
    [t |-> "obj", transcriber |-> [t |-> "obj", name |-> transcriber_name],
     languages |-> languages, source |-> [t |-> "none", languages |-> NoList]]

MkDoc(version, transcript, metadata) ==
    [invalid_type |-> FALSE, additional_fields |-> {}, version |-> version,
     transcript |-> transcript, metadata |-> metadata]

\* the sequences over S of length lo..hi
SeqsOf(S, lo, hi) == UNION {[1..k -> S] : k \in lo..hi}

A == <<"a">>
B == <<"b">>
V060 == <<"0", ".", "6", ".", "0">>
V061 == <<"0", ".", "6", ".", "1">>
V070 == <<"0", ".", "7", ".", "0">>
V160 == <<"1", ".", "6", ".", "0">>
V06 == <<"0", ".", "6">>
Bogus == <<"b", "o", "g", "u", "s">>
MixedCaseComplete == <<"C", "o", "m", "p", "l", "e", "t", "E">>

PlainSegment == MkSegment(Str(A), Seconds(0), Seconds(1), "none")
\* COMPLETE timing whose word text differs from the segment text: a WARNING
MismatchSegment ==
    [PlainSegment EXCEPT
        !.words = List(<<MkWord(Str(B), Seconds(0), Seconds(1), "none")>>)]
BadTimeSegment == MkSegment(Str(A), BadTime, BadTime, "none")

(* documents that differ in root, version, transcript and metadata *)
VersionChoices ==
    {NoneS, IntS, Str(<<>>), Str(V060), Str(V061), Str(V070), Str(V160),
     Str(V06), Str(Bogus)}

StructureTranscripts ==
    {NoTranscript,
     [NoTranscript EXCEPT !.t = "obj", !.invalid_segments_type = TRUE],
     MkTranscript(<<>>, <<>>, NoList)}
    \cup {MkTranscript(<<seg>>, <<>>, NoList) :
            seg \in {PlainSegment, MismatchSegment, BadTimeSegment,
                     [PlainSegment EXCEPT !.speaker_id = Str(B)],
                     [PlainSegment EXCEPT !.confidence = Seconds(2)]}}

StructureMetadata ==
    {NoMetadata, MkMetadata(Str(<<" ">>), NoList), MkMetadata(Str(A), List(<<Str(ENG)>>))}

StructureDocs ==
    {[MkDoc(v, tr, m) EXCEPT !.invalid_type = it, !.additional_fields = af] :
        v \in VersionChoices, tr \in StructureTranscripts, m \in StructureMetadata,
        it \in BOOLEAN, af \in {{}, {<<"f", "o", "o">>}, {<<"_", "x">>}}}

(* parsed JSON values, for STJ.from_dict *)
RawSegments ==
    {PlainSegment,
     [PlainSegment EXCEPT !.is_dict = FALSE],
     [PlainSegment EXCEPT !.text = NoneS],
     [PlainSegment EXCEPT !.confidence = TV("str", "bad", FALSE, 0, 0, FALSE)],
     [PlainSegment EXCEPT !.speaker_id = Str(B)],
     [PlainSegment EXCEPT !.word_timing_mode = StrMode(COMPLETE),
                          !.words = List(<<MkWord(Str(A), Seconds(0), Seconds(1), "none")>>)],
     [PlainSegment EXCEPT !.word_timing_mode = StrMode(Bogus)],
     [PlainSegment EXCEPT !.words = [t |-> "bad", items |-> <<>>]],
     [PlainSegment EXCEPT
         !.words = List(<<[MkWord(Str(A), NoneT, NoneT, "none") EXCEPT !.is_dict = FALSE]>>)],
     [PlainSegment EXCEPT !.words = List(<<MkWord(NoneS, NoneT, NoneT, "none")>>)]}

RawTranscripts ==
    {NoTranscript, [NoTranscript EXCEPT !.t = "bad"],
     [NoTranscript EXCEPT !.t = "obj", !.invalid_segments_type = TRUE]}
    \cup {MkTranscript(<<seg>>, <<>>, NoList) : seg \in RawSegments}
    \cup {MkTranscript(<<PlainSegment>>, <<[id |-> Str(A)]>>, List(<<[id |-> Str(A)]>>))}

RawDocs ==
    {[MkDoc(v, tr, m) EXCEPT !.invalid_type = it] :
        v \in {NoneS, Str(V060), Str(V070)}, tr \in RawTranscripts,
        m \in {NoMetadata, MkMetadata(Str(A), List(<<>>)), MkMetadata(Str(A), List(<<Str(EN)>>))},
        it \in BOOLEAN}

(* documents that differ in the times of their segments *)
TimeChoices == {Seconds(n) : n \in 0..MaxTime} \cup {BadTime}

SegmentChoices ==
    {MkSegment(Str(A), t[1], t[2], flag) :
        t \in {<<NoneT, NoneT>>, <<Seconds(1), NoneT>>} \cup (TimeChoices \X TimeChoices),
        flag \in {"none"}}
    \cup {MkSegment(Str(A), t[1], t[2], "true") :
            t \in {<<Seconds(1), Seconds(1)>>, <<Seconds(0), Seconds(1)>>}}

SegmentDocs ==
    {MkDoc(Str(V060), MkTranscript(segs, <<>>, NoList), NoMetadata) :
        segs \in SeqsOf(SegmentChoices, 1, MaxSegs)}

(* documents that differ in the references of their segments *)
ReferenceChoices ==
    {[seg EXCEPT !.speaker_id = sp, !.style_id = st] :
        seg \in {PlainSegment, MismatchSegment, BadTimeSegment},
        sp \in {NoneS, Str(<<>>), Str(A), Str(B), Str(<<"b", "!">>)},
        st \in {NoneS, Str(B)}}

ReferenceDocs ==
    {MkDoc(Str(V060), MkTranscript(segs, speakers, styles), NoMetadata) :
        segs \in SeqsOf(ReferenceChoices, 1, MaxSegs),
        speakers \in {<<>>, <<[id |-> Str(A)]>>},
        styles \in {NoList, List(<<[id |-> Str(A)]>>)}}

(* documents that differ in the words of their one segment *)
WordChoices ==
    {MkWord(Str(A), w[1], w[2], w[3]) :
        w \in {<<NoneT, NoneT, "none">>, <<NoneT, NoneT, "true">>,
               <<Seconds(1), NoneT, "none">>,
               <<Seconds(1), Seconds(1), "true">>, <<Seconds(1), Seconds(1), "false">>,
               <<Seconds(1), Seconds(1), "none">>, <<Seconds(1), Seconds(2), "none">>,
               <<Seconds(1), Seconds(2), "true">>, <<Seconds(2), Seconds(1), "none">>,
               <<Seconds(2), Seconds(2), "true">>, <<BadTime, BadTime, "false">>,
               <<LongTime, LongTime, "none">>}}

WordSegments ==
    {[MkSegment(Str(A), t[1], t[2], t[3]) EXCEPT !.word_timing_mode = mode, !.words = words] :
        t \in {<<Seconds(0), Seconds(MaxTime), "none">>, <<Seconds(1), Seconds(1), "true">>,
               <<Seconds(1), Seconds(1), "false">>, <<BadTime, BadTime, "none">>,
               <<LongTime, Seconds(MaxTime), "true">>,
               <<Seconds(0), Seconds(MaxTime), "true">>},
        mode \in {NoMode, EnumMode(COMPLETE), EnumMode(PARTIAL), EnumMode(NONE),
                  StrMode(COMPLETE), StrMode(MixedCaseComplete), StrMode(Bogus)},
        words \in {NoList} \cup {List(ws) : ws \in SeqsOf(WordChoices, 0, MaxWords)}}

WordDocs ==
    {MkDoc(Str(V060), MkTranscript(<<seg>>, <<>>, NoList), NoMetadata) :
        seg \in WordSegments}

-----------------------------------------------------------------------------
(* Specifications: validate_stj over each family of documents, every one  *)
(* with the parsed JSON values that go through STJ.from_dict first         *)

NoZarg == [start |-> NoneT, end |-> NoneT, flag |-> "none"]

InitWith(docs) ==
    /\ \E in \in ({"root"} \X docs) \cup ({"from_dict"} \X RawDocs) :
          pc = in[1] /\ stj = in[2]
    /\ issues = <<>>
    /\ ran = {}
    /\ segment1 = EmptySegment
    /\ segment2 = EmptySegment
    /\ ret = NoSegment
    /\ first = NoFirst
    /\ targ = NoneT
    /\ zarg = NoZarg
    /\ heap = NoHeap
    /\ stack = <<>>

InitStructure == InitWith(StructureDocs)
SpecStructure == InitStructure /\ [][Next]_vars

InitSegments == InitWith(SegmentDocs)
SpecSegments == InitSegments /\ [][Next]_vars

InitReferences == InitWith(ReferenceDocs)
SpecReferences == InitReferences /\ [][Next]_vars

InitWords == InitWith(WordDocs)
SpecWords == InitWords /\ [][Next]_vars

Init == InitWith(StructureDocs \cup SegmentDocs \cup ReferenceDocs \cup WordDocs)
Spec == Init /\ [][Next]_vars

(* validate_time_format called on one value *)
Coefs == 0..MaxCoef \cup {999999, 1000000, 999999999, 1000000000}
Exps == (0 - MaxPlaces)..MaxExp

TimeInputs ==
    {NoneT, TV("other", "fin", FALSE, 0, 0, FALSE),
     TV("bool", "fin", FALSE, 0, 0, FALSE), TV("bool", "fin", FALSE, 1, 0, FALSE)}
    \cup {TV("int", "fin", neg, c, 0, FALSE) :
            neg \in BOOLEAN, c \in {x \in Coefs : x > 0}}
    \cup {IntT(0)}
    \cup {TV("float", "fin", neg, c, e, FALSE) :
            neg \in BOOLEAN, c \in {x \in Coefs : x % 10 # 0}, e \in Exps}
    \cup {FloatT(neg, 0, 0) : neg \in BOOLEAN}
    \cup {TV("decimal", "fin", neg, c, e, FALSE) :
            neg \in BOOLEAN, c \in Coefs, e \in Exps}
    \* a string with a positive exponent is written with the letter e
    \cup {v \in {TV("str", "fin", neg, c, e, sci) :
                    neg \in BOOLEAN, c \in Coefs, e \in Exps, sci \in BOOLEAN} :
            v.exp > 0 => v.e}
    \cup {TV(k, sp, neg, 0, 0, FALSE) :
            k \in {"float", "decimal", "str"}, sp \in {"inf", "nan"}, neg \in BOOLEAN}
    \cup {TV("str", "bad", FALSE, 0, 0, FALSE)}

InitTime ==
    /\ pc = "time_call"
    /\ targ \in TimeInputs
    /\ stj = MkDoc(NoneS, NoTranscript, NoMetadata)
    /\ issues = <<>>
    /\ ran = {}
    /\ segment1 = EmptySegment
    /\ segment2 = EmptySegment
    /\ ret = NoSegment
    /\ first = NoFirst
    /\ zarg = NoZarg
    /\ heap = NoHeap
    /\ stack = <<>>

SpecTime == InitTime /\ [][NextTime]_vars

(* validate_zero_duration called on two numbers and a flag *)
ZeroTimes ==
    {IntT(n) : n \in 0..MaxZeroCoef}
    \cup {FloatT(FALSE, c, e) : c \in 0..MaxZeroCoef, e \in {-1, 0}}

InitZero ==
    /\ pc = "zero_call"
    /\ zarg \in [start : ZeroTimes, end : ZeroTimes, flag : {"none", "true", "false"}]
    /\ stj = MkDoc(NoneS, NoTranscript, NoMetadata)
    /\ issues = <<>>
    /\ ran = {}
    /\ segment1 = EmptySegment
    /\ segment2 = EmptySegment
    /\ ret = NoSegment
    /\ first = NoFirst
    /\ targ = NoneT
    /\ heap = NoHeap
    /\ stack = <<>>

SpecZero == InitZero /\ [][NextZero]_vars

-----------------------------------------------------------------------------
(* Properties.  These are stated from the specification of the validator, *)
(* over the list validate_stj returns (issues once pc = "done").           *)

RootOk == validate_root_structure(stj) = <<>>

\* the version is missing, not MAJOR.MINOR.PATCH-shaped, or not a 0.6 one
VersionRejected(v) ==
    \/ v.t # "str"
    \/ v.s = <<>>
    \/ ~MatchesSemver(v.s)
    \/ Len(v.s) < 4
    \/ SubSeq(v.s, 1, 4) # <<"0", ".", "6", ".">>

Returned == pc = "done" /\ "validate_root_structure" \in ran

\* validate_stj returned for a document with a well-formed root and a
\* supported version
ReturnedPastVersion == Returned /\ RootOk /\ ~VersionRejected(stj.version)

Segments == stj.transcript.segments

LaterPhases ==
    {"validate_transcript", "validate_types", "validate_references",
     "validate_language_codes", "validate_language_consistency",
     "validate_confidence_scores", "validate_all_extensions"}
    \cup (IF stj.metadata.t # "none" THEN {"validate_metadata"} ELSE {})

\* C1: once the root and version checks report nothing, every later phase
\* of validate_stj runs, whatever the transcript phase reports.
C1_LaterPhasesAlwaysRun == ReturnedPastVersion => LaterPhases \subseteq ran

Resolved(seg) ==
    /\ TruthyStr(seg.speaker_id) => seg.speaker_id \in IdsOf(stj.transcript.speakers)
    /\ TruthyStr(seg.style_id) =>
          /\ stj.transcript.styles.t = "list"
          /\ seg.style_id \in IdsOf(stj.transcript.styles.items)

\* C3: with a well-formed root and a supported version, a result without
\* ERROR issue means every non-empty speaker_id and style_id of a segment
\* is declared.
C3_NoErrorMeansResolved ==
    (ReturnedPastVersion /\ \A k \in DOMAIN issues : issues[k].severity # "ERROR")
        => \A i \in DOMAIN Segments : Resolved(Segments[i])

\* C4: STJ.from_dict followed by validate_stj never raises.
C4_NeverRaises == pc # "raised"

Declared(id, items) == id \in IdsOf(items)

\* C5: every non-null speaker_id (style_id) of a segment that is not
\* declared is reported by an invalid-reference ERROR at the field of the
\* segment.
C5_UnresolvedAlwaysReported ==
    ReturnedPastVersion =>
        \A i \in DOMAIN Segments :
            /\ (Segments[i].speaker_id.t # "none"
                /\ ~Declared(Segments[i].speaker_id, stj.transcript.speakers))
               => \E k \in DOMAIN issues :
                     issues[k] = Err("Invalid speaker_id reference",
                                     SegLoc(i - 1, "speaker_id"))
            /\ (Segments[i].style_id.t # "none"
                /\ ~(stj.transcript.styles.t = "list"
                     /\ Declared(Segments[i].style_id, stj.transcript.styles.items)))
               => \E k \in DOMAIN issues :
                     issues[k] = Err("Invalid style_id reference",
                                     SegLoc(i - 1, "style_id"))

\* the value in thousandths of a number with at most three decimal places
Millis(v) == (IF v.neg THEN 0 - v.coef ELSE v.coef) * Pow10(v.exp + 3)

Carries(seg) == seg.start.kind # "none" /\ seg.end.kind # "none"

OrderingMessages ==
    {"Segments must not overlap and must be ordered by start time.",
     "Segments must be ordered by start time."}

\* the ordering/overlap ERRORs located at the segment of 1-based index i
OrderingErrorsAt(i) ==
    {k \in DOMAIN issues :
        /\ issues[k].severity = "ERROR"
        /\ issues[k].message \in OrderingMessages
        /\ issues[k].location = {SegLoc(i - 1, "")}}

\* C6: when segments i-1 and i both carry start and end and segment i starts
\* before segment i-1, or starts with it and ends before it, exactly one
\* ordering ERROR is reported at segment i.
C6_OrderingReported ==
    ReturnedPastVersion =>
        \A i \in DOMAIN Segments :
            (/\ i > 1
             /\ Carries(Segments[i]) /\ Carries(Segments[i - 1])
             /\ \/ Millis(Segments[i].start) < Millis(Segments[i - 1].start)
                \/ /\ Millis(Segments[i].start) = Millis(Segments[i - 1].start)
                   /\ Millis(Segments[i].end) < Millis(Segments[i - 1].end))
            => Cardinality(OrderingErrorsAt(i)) = 1

\* a finite number in [0, 999999.999] with at most three decimal places and
\* not written in scientific notation
WellFormedTime(v) ==
    /\ v.kind \in {"int", "float", "decimal", "str"}
    /\ v.special = "fin"
    /\ ~v.neg \/ v.coef = 0
    /\ v.exp >= 0 - MAX_DECIMAL_PLACES
    /\ v.coef = 0 \/ (v.exp <= 6 /\ v.coef <= MAX_TIME_MILLIS \div Pow10(v.exp + 3))
    /\ ~StrHasE(v)

ValidTimes(seg) ==
    Carries(seg) /\ WellFormedTime(seg.start) /\ WellFormedTime(seg.end)

\* C7: for adjacent segments that both carry valid start and end, exactly one
\* overlap ERROR is reported at the second one if and only if it starts
\* before the first one ends (none otherwise, also when it is a zero-length
\* segment at the end of the first); 0.0-2.0 followed by 1.0-3.0 gives
\* exactly one overlap ERROR, at the second segment.
C7_Overlap ==
    ReturnedPastVersion =>
        /\ \A i \in DOMAIN Segments :
              (i > 1 /\ ValidTimes(Segments[i]) /\ ValidTimes(Segments[i - 1]))
              => Cardinality(OrderingErrorsAt(i)) =
                    IF Millis(Segments[i].start) < Millis(Segments[i - 1].end)
                    THEN 1 ELSE 0
        /\ (/\ Len(Segments) = 2
            /\ Segments[1].start = Seconds(0) /\ Segments[1].end = Seconds(2)
            /\ Segments[2].start = Seconds(1) /\ Segments[2].end = Seconds(3))
           => /\ Cardinality(OrderingErrorsAt(2)) = 1
              /\ \A k \in DOMAIN issues :
                    issues[k].message \in OrderingMessages => k \in OrderingErrorsAt(2)

C7_Witness ==
    /\ ReturnedPastVersion
    /\ Len(Segments) = 2
    /\ Segments[1].start = Seconds(0) /\ Segments[1].end = Seconds(2)
    /\ Segments[2].start = Seconds(1) /\ Segments[2].end = Seconds(3)
    /\ Segments[2].is_zero_duration = "none"
    /\ issues = <<Err("Segments must not overlap and must be ordered by start time.",
                      SegLoc(1, ""))>>

\* the value in tenths of a number with at most one decimal place
Tenths(v) == (IF v.neg THEN 0 - v.coef ELSE v.coef) * Pow10(v.exp + 1)

HasError == \E k \in DOMAIN issues : issues[k].severity = "ERROR"

\* C8: validate_zero_duration reports an ERROR when start = end and the flag
\* is not true, when start # end and the flag is true, and whenever
\* start > end; it reports nothing exactly when the flag (absent counted as
\* false) equals (start = end) and start <= end.
C8_ZeroDurationTable ==
    (pc = "done" /\ "validate_zero_duration" \in ran) =>
        LET start == Tenths(zarg.start)
            end == Tenths(zarg.end)
            flag == zarg.flag = "true"
        IN /\ (start = end /\ ~flag) => HasError
           /\ (start # end /\ flag) => HasError
           /\ start > end => HasError
           /\ issues = <<>> <=> ((flag <=> start = end) /\ start <= end)

\* start = end = 5.0 with the flag false: one ERROR
C8_Witness ==
    /\ pc = "done"
    /\ zarg = [start |-> FloatT(FALSE, 5, 0), end |-> FloatT(FALSE, 5, 0),
               flag |-> "false"]
    /\ issues = <<Err("Zero duration item must have is_zero_duration set to true",
                      CallLocation)>>

ZeroDurationMessages ==
    {"Zero duration item must have is_zero_duration set to true",
     "Non-zero duration item cannot have is_zero_duration set to true"}

ZeroDurationErrorAt(location) ==
    \E k \in DOMAIN issues :
        /\ issues[k].severity = "ERROR"
        /\ issues[k].message \in ZeroDurationMessages
        /\ issues[k].location = {location}

\* start and end are present and the flag differs from (start = end)
FlagMismatch(item) ==
    /\ item.start.kind # "none" /\ item.end.kind # "none"
    /\ (item.is_zero_duration = "true") # NumEq(item.start, item.end)

\* word_timing_mode is None, a WordTimingMode member or a string naming one
ModeUsable(seg) ==
    seg.word_timing_mode.t = "str"
        => Lower(seg.word_timing_mode.s) \in WordTimingModeValues

C10_TimeFormat ==
    (pc = "done" /\ "validate_time_format" \in ran) =>
        /\ issues = <<>> <=> WellFormedTime(targ)
        /\ issues # <<>> =>
              \E k \in DOMAIN issues :
                  issues[k].severity = "ERROR" /\ issues[k].location = {CallLocation}

\* the largest accepted value, 999999.999
C10_Witness ==
    /\ pc = "done"
    /\ "validate_time_format" \in ran
    /\ targ = FloatT(FALSE, MAX_TIME_MILLIS, 0 - MAX_DECIMAL_PLACES)
    /\ issues = <<>>

-----------------------------------------------------------------------------
(* Word-timing modes *)

\* the segment is not flagged zero-duration and its times, when both are
\* present, differ
NonZeroDuration(seg) ==
    /\ seg.is_zero_duration # "true"
    /\ ~(seg.start.kind # "none" /\ seg.end.kind # "none" /\ NumEq(seg.start, seg.end))

TimedWords(seg) == {w \in DOMAIN WordsOf(seg) : HasTiming(WordsOf(seg)[w])}

IncompleteMessage ==
    "Incomplete word timing data requires explicit 'word_timing_mode: partial'"

\* the positions in the result of the ERRORs with this message at segment i
ErrorsAt(message, location) ==
    {k \in DOMAIN issues :
        /\ issues[k].severity = "ERROR"
        /\ issues[k].message = message
        /\ issues[k].location = {location}}

\* C11: for a non-zero-duration segment without word_timing_mode, the
\* effective mode is COMPLETE without an error when every word of a words
\* array is timed; exactly one ERROR asks for 'word_timing_mode: partial' and
\* no mode is set when some but not all words are timed; the mode is NONE
\* without an error when no word of the words array is timed; the mode is
\* NONE when there is no words array.
C11_ImplicitMode ==
    ReturnedPastVersion =>
        \A i \in DOMAIN Segments :
            LET seg == Segments[i]
                n == Len(WordsOf(seg))
                timed == Cardinality(TimedWords(seg))
                mode == EffectiveMode(seg.word_timing_mode, WordsOf(seg))
                asked == ErrorsAt(IncompleteMessage, SegLoc(i - 1, ""))
            IN (NonZeroDuration(seg) /\ seg.word_timing_mode.t = "none") =>
                  /\ (seg.words.t = "list" /\ n > 0 /\ timed = n)
                     => (mode = COMPLETE /\ asked = {})
                  /\ (seg.words.t = "list" /\ 0 < timed /\ timed < n)
                     => (mode = <<>> /\ Cardinality(asked) = 1)
                  /\ (seg.words.t = "list" /\ timed = 0)
                     => (mode = NONE /\ asked = {})
                  /\ seg.words.t = "none" => mode = NONE

\* word_timing_mode is the enum member of this value or a string that
\* lower-cases to it
ExplicitMode(seg, value) ==
    \/ seg.word_timing_mode.t = "enum" /\ seg.word_timing_mode.s = value
    \/ seg.word_timing_mode.t = "str" /\ Lower(seg.word_timing_mode.s) = value

\* some ERROR of the result is located at this place
ErrorAt(location) ==
    \E k \in DOMAIN issues :
        issues[k].severity = "ERROR" /\ issues[k].location = {location}

\* some ERROR of the result is located at segment i or at one of its fields
ErrorAtSegment(i) ==
    \E k \in DOMAIN issues :
        /\ issues[k].severity = "ERROR"
        /\ \E l \in issues[k].location :
              l.root = "transcript.segments" /\ l.idx = i /\ l.widx = NoIdx

\* C12: for a non-zero-duration segment with an explicit word_timing_mode of
\* 'complete', every word lacking start or end gets an ERROR at
\* transcript.segments[i].words[j], and an absent or empty words array gets
\* an ERROR.
C12_CompleteMode ==
    ReturnedPastVersion =>
        \A i \in DOMAIN Segments :
            LET seg == Segments[i] IN
            (NonZeroDuration(seg) /\ ExplicitMode(seg, COMPLETE)) =>
                /\ \A w \in DOMAIN WordsOf(seg) :
                      ~HasTiming(WordsOf(seg)[w]) => ErrorAt(WordLoc(i - 1, w - 1, ""))
                /\ WordsOf(seg) = <<>> => ErrorAtSegment(i - 1)

\* some ERROR of the result is located at segment i, at one of its fields or
\* at one of its words
ErrorWithinSegment(i) ==
    \E k \in DOMAIN issues :
        /\ issues[k].severity = "ERROR"
        /\ \E l \in issues[k].location : l.root = "transcript.segments" /\ l.idx = i

\* C13: for a non-zero-duration segment, an explicit word_timing_mode of
\* 'none' with a words array present gets an ERROR, and an explicit
\* word_timing_mode of 'partial' with a words array that is absent, empty or
\* without any word having both start and end gets an ERROR.
C13_NoneAndPartialModes ==
    ReturnedPastVersion =>
        \A i \in DOMAIN Segments :
            LET seg == Segments[i] IN
            NonZeroDuration(seg) =>
                /\ (ExplicitMode(seg, NONE) /\ seg.words.t = "list")
                   => ErrorWithinSegment(i - 1)
                /\ (ExplicitMode(seg, PARTIAL) /\ TimedWords(seg) = {})
                   => ErrorWithinSegment(i - 1)

-----------------------------------------------------------------------------
(* _validate_word_text_consistency: the comparison of the segment text    *)
(* with the word texts after removal of punctuation and extra white space *)
(* (white space is the space character here).                              *)

\* the characters matched by \w
WordChars == Range(LowerLetters) \cup Range(UpperLetters) \cup Range(Digits) \cup {"_"}

\* re.sub(TEXT_NORMALIZATION_PATTERN, "", s) with the pattern [^\w\s]
RemovePunctuation(s) == SelectSeq(s, LAMBDA c : c \in WordChars \cup {" "})

RECURSIVE CollapseSpaces(_)
\* " ".join(s.split()) on a string without leading white space
CollapseSpaces(s) ==
    IF s = <<>> THEN <<>>
    ELSE IF Head(s) = " "
         THEN (IF LStrip(s) = <<>> THEN <<>> ELSE <<" ">> \o CollapseSpaces(LStrip(s)))
         ELSE <<Head(s)>> \o CollapseSpaces(Tail(s))

NormalizeText(s) == CollapseSpaces(LStrip(RemovePunctuation(s)))

_validate_word_text_consistency(segment, segment_idx, words) ==
    IF Lower(NormalizeText(segment.text.s)) # Lower(NormalizeText(JoinWords(words)))
    THEN <<Warn("Segment text does not match concatenated word texts",
                Loc("transcript.segments", segment_idx, NoIdx, ""))>>
    ELSE <<>>

(* documents that differ in the text of their one segment and of its words *)
AB == <<"a", " ", "b">>
TextChoices ==
    {A, AB, <<"A", " ", "B">>, <<"a", ",", " ", "b", "!">>, <<"a", " ", " ", "b">>,
     <<"a", "b">>}

TextWords ==
    {MkWord(Str(t), Seconds(1), Seconds(1), "true") : t \in {A, B, <<"B", ".">>}}
    \cup {MkWord(Str(B), NoneT, NoneT, "none")}

TextSegments ==
    {[MkSegment(Str(text), Seconds(0), Seconds(MaxTime), "none")
        EXCEPT !.word_timing_mode = mode, !.words = words] :
        text \in TextChoices,
        mode \in {NoMode, EnumMode(COMPLETE), StrMode(MixedCaseComplete), EnumMode(PARTIAL)},
        words \in {NoList} \cup {List(ws) : ws \in SeqsOf(TextWords, 0, MaxWords)}}

TextDocs ==
    {MkDoc(Str(V060), MkTranscript(<<seg>>, <<>>, NoList), NoMetadata) :
        seg \in TextSegments}

InitText == InitWith(TextDocs)
SpecText == InitText /\ [][Next]_vars

\* the effective mode validate_words_in_segment computes for a segment that
\* is not flagged zero-duration: a mode value, or <<>> when none is set
EffectiveModeOf(seg) ==
    IF ~ModeUsable(seg) THEN <<>>
    ELSE EffectiveMode(IF seg.word_timing_mode.t = "str"
                       THEN EnumMode(Lower(seg.word_timing_mode.s))
                       ELSE seg.word_timing_mode,
                       WordsOf(seg))

\* the positions in the result of the text-consistency issues of segment i
TextIssuesAt(i) ==
    {k \in DOMAIN issues :
        /\ issues[k].message = "Segment text does not match concatenated word texts"
        /\ issues[k].location = {SegLoc(i, "")}}

\* C14: for a non-zero-duration segment whose effective mode is COMPLETE,
\* the result holds a text-consistency issue if and only if the segment text
\* and the space-joined word texts differ after case-folding, removal of
\* punctuation and collapsing of white space; the issue is a WARNING.
C14_TextConsistency ==
    ReturnedPastVersion =>
        \A i \in DOMAIN Segments :
            LET seg == Segments[i] IN
            (NonZeroDuration(seg) /\ EffectiveModeOf(seg) = COMPLETE) =>
                /\ TextIssuesAt(i - 1) # {}
                   <=> _validate_word_text_consistency(seg, i - 1, WordsOf(seg)) # <<>>
                /\ \A k \in TextIssuesAt(i - 1) : issues[k].severity = "WARNING"

-----------------------------------------------------------------------------
(* Zero-duration segments *)

\* start equals end
StartEqualsEnd(seg) ==
    seg.start.kind # "none" /\ seg.end.kind # "none" /\ NumEq(seg.start, seg.end)

\* the messages of the word-timing-mode, word-timing and text-consistency
\* checks of validate_words_in_segment
WordCheckMessages ==
    {"Invalid word_timing_mode", IncompleteMessage,
     "All words must have timing data when word_timing_mode is 'complete'",
     "If 'start' or 'end' is present in a word, both must be present.",
     "'is_zero_duration' must not be present when 'start' and 'end' are absent in a word.",
     "Word start time cannot be before segment start time",
     "Word end time cannot be after segment end time",
     "Words within segment must not overlap in time",
     "Segment text does not match concatenated word texts"}

\* an issue of one of these checks, or any issue located at a word, for
\* segment i
WordCheckApplied(i) ==
    \E k \in DOMAIN issues :
        \E l \in issues[k].location :
            /\ l.root = "transcript.segments" /\ l.idx = i
            /\ (issues[k].message \in WordCheckMessages \/ l.widx # NoIdx)

\* C15: a segment whose start equals its end gets an ERROR if it carries a
\* words array and an ERROR if it carries a word_timing_mode, and none of the
\* word-timing-mode, word-timing and text-consistency checks is applied to
\* it.
C15_ZeroDurationSegment ==
    ReturnedPastVersion =>
        \A i \in DOMAIN Segments :
            LET seg == Segments[i] IN
            StartEqualsEnd(seg) =>
                /\ seg.words.t = "list"
                   => ErrorsAt("Zero-duration segment must not have 'words' array.",
                               SegLoc(i - 1, "")) # {}
                /\ seg.word_timing_mode.t # "none"
                   => ErrorsAt("Zero-duration segment must not have 'word_timing_mode'.",
                               SegLoc(i - 1, "")) # {}
                /\ ~WordCheckApplied(i - 1)

-----------------------------------------------------------------------------
(* validate_extensions called on a heap of three namespace maps *)

MaxNamespaces == 2

CUSTOM == <<"c", "u", "s", "t", "o", "m">>
A1 == <<"a", "-", "1">>
UpperKey == <<"A", "b">>
UnderscoreKey == <<"a", "_", "b">>
DotKey == <<"a", ".", "b">>
STJ_NS == <<"s", "t", "j">>

SimpleItems ==
    {Item(k, TRUE, Absent) :
        k \in {CUSTOM, A1, UpperKey, UnderscoreKey, DotKey, <<>>, STJ_NS}}
    \cup {Item(CUSTOM, FALSE, Absent)}

RootItems ==
    SimpleItems
    \cup {Item(k, TRUE, n) :
            k \in {CUSTOM, A1}, n \in {NestedNone, NestedBad, Ref(1), Ref(2), Ref(3)}}

\* a dict holds a key once
RootMaps ==
    {m \in SeqsOf(RootItems, 1, MaxNamespaces) :
        \A i, j \in DOMAIN m : i # j => m[i].key # m[j].key}

SecondMaps ==
    {<<>>, <<Item(CUSTOM, TRUE, Absent)>>, <<Item(CUSTOM, TRUE, Ref(1))>>,
     <<Item(A1, TRUE, Ref(2))>>, <<Item(A1, TRUE, Ref(3))>>,
     <<Item(UpperKey, TRUE, Ref(3))>>,
     <<Item(A1, TRUE, Absent)>>, <<Item(B, TRUE, Absent)>>}

ThirdMaps ==
    {<<>>, <<Item(CUSTOM, TRUE, Absent)>>, <<Item(UpperKey, TRUE, Ref(1))>>,
     <<Item(B, TRUE, Absent)>>}

InitExtensions ==
    /\ pc = "ext_call"
    /\ \E r \in RootMaps, s \in SecondMaps, t \in ThirdMaps : heap = <<r, s, t>>
    /\ stack = <<>>
    /\ stj = MkDoc(NoneS, NoTranscript, NoMetadata)
    /\ issues = <<>>
    /\ ran = {}
    /\ segment1 = EmptySegment
    /\ segment2 = EmptySegment
    /\ ret = NoSegment
    /\ first = NoFirst
    /\ targ = NoneT
    /\ zarg = NoZarg

SpecExtensions == InitExtensions /\ [][NextExtensions]_vars

\* a running call always takes its next step
SpecExtensionsLive == SpecExtensions /\ WF_vars(NextExtensions)

-----------------------------------------------------------------------------
(* Properties of validate_extensions *)

\* the loop of the innermost call is at an item
AtItem ==
    /\ pc = "ext_loop"
    /\ stack # <<>>
    /\ TopFrame.obj # NoneObj
    /\ TopFrame.pos <= Len(heap[TopFrame.obj])

CurrentItem == heap[TopFrame.obj][TopFrame.pos]

\* the names of the namespaces that enclose the innermost call, outermost
\* first: the item each calling frame was at when it made its call
AncestorNames ==
    [k \in 1..(Len(stack) - 1) |-> heap[stack[k].obj][stack[k].pos - 1].key]

\* the path the validator is on: the ancestors and the item it is at
WalkedPath == AncestorNames \o (IF AtItem THEN <<CurrentItem.key>> ELSE <<>>)

Occurrences(name, path) == Cardinality({k \in DOMAIN path : path[k] = name})

\* the issues the step appends
NewIssues == SubSeq(issues', Len(issues) + 1, Len(issues'))

CircularText == "Circular reference detected in extensions"

\* {"custom": {"extensions": {"custom": {}}}}
IsCustomExample ==
    /\ heap[1] = <<Item(CUSTOM, TRUE, Ref(2))>>
    /\ heap[2] = <<Item(CUSTOM, TRUE, Absent)>>

CustomExampleResult ==
    <<ExtErr(CircularText, <<CUSTOM, CUSTOM>>, <<CUSTOM, EXTENSIONS, CUSTOM>>)>>

\* C16: validate_extensions emits a circular-reference ERROR for a namespace
\* if and only if its name is among the names of its ancestors on the
\* current path, and does not descend into a namespace so reported; a name
\* appears at most twice on the path walked; for
\* {"custom": {"extensions": {"custom": {}}}} the result is exactly the ERROR
\* 'Circular reference detected in extensions: custom -> custom'.
C16_CircularReference ==
    /\ [][AtItem =>
            LET emitted == \E k \in DOMAIN NewIssues :
                               /\ NewIssues[k].message[1] = CircularText
                               /\ NewIssues[k].severity = "ERROR"
            IN /\ emitted <=> CurrentItem.key \in Range(AncestorNames)
               /\ emitted => Len(stack') <= Len(stack)]_vars
    /\ [](\A k \in DOMAIN WalkedPath : Occurrences(WalkedPath[k], WalkedPath) <= 2)
    /\ []((pc = "done" /\ "validate_extensions" \in ran /\ IsCustomExample)
          => issues = CustomExampleResult)

C16_Witness ==
    /\ pc = "done"
    /\ "validate_extensions" \in ran
    /\ IsCustomExample
    /\ issues = CustomExampleResult

\* C17: validate_extensions emits an ERROR for every namespace key, at every
\* nesting level, that is not a non-empty string of lower-case letters,
\* digits and hyphens.
C17_NamespacePattern ==
    [][(AtItem /\ ~MatchesNamespacePattern(CurrentItem.key)) =>
          \E k \in DOMAIN NewIssues :
              /\ NewIssues[k].severity = "ERROR"
              /\ NewIssues[k].location =
                     {ExtLoc(Append(TopFrame.location, CurrentItem.key))}]_vars

\* the namespace names of the input
AllNames == UNION {{heap[o][i].key : i \in DOMAIN heap[o]} : o \in DOMAIN heap}

Finished == pc \in {"done", "raised"}

\* C18: validate_extensions terminates on every input, a map whose nested
\* 'extensions' refers back to an enclosing map included, and its recursion
\* depth never exceeds the number of distinct namespace names plus one.
C18_Terminates ==
    /\ [](Len(stack) - 1 <= Cardinality(AllNames) + 1)
    /\ <>Finished

\* a map whose nested extensions is the map itself, walked to the end
C18_Witness ==
    /\ pc = "done"
    /\ "validate_extensions" \in ran
    /\ heap[1] = <<Item(CUSTOM, TRUE, Ref(1))>>
    /\ issues = <<ExtErr(CircularText, <<CUSTOM, CUSTOM>>, <<CUSTOM, EXTENSIONS, CUSTOM>>)>>

-----------------------------------------------------------------------------
(* validate_language_consistency called on documents that differ in their *)
(* language codes                                                          *)

MaxCodes == 2

LanguageCodes == {Str(EN), Str(ENG), Str(FRA), Str(YUE), Str(Bogus)}

LanguageLists ==
    {NoList, List(<<>>)} \cup {List(l) : l \in SeqsOf(LanguageCodes, 1, MaxCodes)}

SourceLists ==
    {NoList, List(<<Str(EN)>>), List(<<Str(ENG)>>), List(<<Str(FR)>>),
     List(<<Str(ENG), Str(FRA)>>)}

LanguageMetadata ==
    {NoMetadata}
    \cup {MkMetadata(Str(A), l) : l \in LanguageLists}
    \cup {[MkMetadata(Str(A), l) EXCEPT !.source = [t |-> "obj", languages |-> sl]] :
            l \in LanguageLists, sl \in SourceLists}

LanguageSegments ==
    {[PlainSegment EXCEPT !.language = c] : c \in {NoneS, Str(EN), Str(ENG), Str(FRA)}}

LanguageDocs ==
    {MkDoc(Str(V060), MkTranscript(segs, <<>>, NoList), m) :
        segs \in SeqsOf(LanguageSegments, 1, MaxSegs), m \in LanguageMetadata}

InitLanguage ==
    /\ pc = "language_call"
    /\ stj \in LanguageDocs
    /\ issues = <<>>
    /\ ran = {}
    /\ segment1 = EmptySegment
    /\ segment2 = EmptySegment
    /\ ret = NoSegment
    /\ first = NoFirst
    /\ targ = NoneT
    /\ zarg = NoZarg
    /\ heap = NoHeap
    /\ stack = <<>>

SpecLanguage == InitLanguage /\ [][NextLanguage]_vars

Languages == {"english", "french", "yue chinese"}

\* the codes of a list that name this language
CodesIn(list, language) ==
    {c.s : c \in {x \in Range(list.items) : LangResolves(x) /\ LangName(x.s) = language}}

\* the code strings this language is used under in the document
CodesOf(language) ==
    CodesIn(stj.metadata.languages, language)
    \cup CodesIn(stj.metadata.source.languages, language)
    \cup UNION {CodesIn(List(<<Segments[i].language>>), language) : i \in DOMAIN Segments}

\* the locations where this language is used
PlacesOf(language) ==
    (IF CodesIn(stj.metadata.languages, language) # {}
     THEN {Loc("metadata.languages", NoIdx, NoIdx, "")} ELSE {})
    \cup (IF CodesIn(stj.metadata.source.languages, language) # {}
          THEN {Loc("metadata.source.languages", NoIdx, NoIdx, "")} ELSE {})
    \cup {SegLoc(i - 1, "language") :
            i \in {n \in DOMAIN Segments :
                      CodesIn(List(<<Segments[n].language>>), language) # {}}}

InconsistencyIssues(language) ==
    {k \in DOMAIN issues : issues[k].message = InconsistentMessage(language)}

-----------------------------------------------------------------------------
(* validate_stj on valid documents that differ in metadata.languages *)

ExampleDocs ==
    {MkDoc(Str(V060), MkTranscript(<<seg>>, <<>>, NoList), MkMetadata(Str(A), l)) :
        seg \in {PlainSegment, [PlainSegment EXCEPT !.language = Str(EN)]},
        l \in LanguageLists}

InitExample == InitWith(ExampleDocs)
SpecExample == InitExample /\ [][Next]_vars

\* the positions of the ERRORs of the result
ErrorPositions == {k \in DOMAIN issues : issues[k].severity = "ERROR"}

\* a document that is valid but for metadata.languages = ["en", "eng"]
IsEnEngExample ==
    /\ stj.metadata.languages = List(<<Str(EN), Str(ENG)>>)
    /\ stj.metadata.source.t = "none"
    /\ stj.metadata.transcriber.name = Str(A)
    /\ Segments = <<PlainSegment>>

\* C20: for a document that is otherwise valid and has metadata.languages =
\* ["en", "eng"], validate_stj returns exactly one ERROR, the one citing the
\* inconsistent codes of the language.
C20_EnEngExample ==
    (ReturnedPastVersion /\ IsEnEngExample) =>
        /\ Cardinality(ErrorPositions) = 1
        /\ \A k \in ErrorPositions : issues[k].message = InconsistentMessage("english")

-----------------------------------------------------------------------------
(* validate_stj called twice on one document *)

TwiceDocs == StructureDocs \cup ExampleDocs

InitTwice == InitWith(TwiceDocs)
SpecTwice == InitTwice /\ [][NextTwice]_vars

\* a validate_stj call is running or has returned
InValidateStj == pc # "from_dict"

\* the second call has returned
ReturnedTwice == first.called /\ Returned

-----------------------------------------------------------------------------
(* Segments of mixed timing state *)

CarriesNeither(seg) == seg.start.kind = "none" /\ seg.end.kind = "none"

\* the text the issue for a mixed transcript is to hold
TimingStateMessage == "Segments must include 'start' and 'end'"

\* C22: when one segment of the transcript carries start and end and another
\* carries neither, validate_stj reports an ERROR saying that segments must
\* include 'start' and 'end'.
C22_SharedTimingState ==
    (/\ ReturnedPastVersion
     /\ \E i \in DOMAIN Segments : Carries(Segments[i])
     /\ \E j \in DOMAIN Segments : CarriesNeither(Segments[j]))
    => \E k \in DOMAIN issues :
          issues[k].severity = "ERROR" /\ issues[k].message = TimingStateMessage

-----------------------------------------------------------------------------
(* Version errors and metadata *)

TranscriberNameLoc == Loc("metadata.transcriber.name", NoIdx, NoIdx, "")

\* C23: for a document of version 0.7.0 whose metadata.transcriber.name is
\* whitespace only, the returned list holds the 'Incompatible version' issue
\* and an issue about transcriber.name.
C23_VersionAndMetadata ==
    (/\ Returned /\ RootOk
     /\ stj.version = Str(V070)
     /\ stj.metadata.t = "obj"
     /\ stj.metadata.transcriber.name = Str(<<" ">>))
    => /\ \E k \in DOMAIN issues : issues[k].message = "Incompatible version"
       /\ \E k \in DOMAIN issues :
             \/ issues[k].message = "'transcriber.name' must not be empty or whitespace."
             \/ TranscriberNameLoc \in issues[k].location

-----------------------------------------------------------------------------
(* Empty language arrays *)

EmptyListChoices == {NoList, List(<<>>), List(<<Str(EN)>>)}

EmptyListMetadata ==
    {MkMetadata(Str(A), l) : l \in EmptyListChoices}
    \cup {[MkMetadata(Str(A), l) EXCEPT !.source = [t |-> "obj", languages |-> sl]] :
            l \in EmptyListChoices, sl \in EmptyListChoices}

EmptyListDocs ==
    {MkDoc(Str(v), MkTranscript(<<seg>>, <<>>, NoList), m) :
        v \in {V060, V061},
        seg \in {PlainSegment, MkSegment(Str(A), NoneT, NoneT, "none")},
        m \in EmptyListMetadata}

InitEmptyList == InitWith(EmptyListDocs)
SpecEmptyList == InitEmptyList /\ [][Next]_vars

\* an issue located at the array
NamesArray(root) ==
    \E k \in DOMAIN issues : Loc(root, NoIdx, NoIdx, "") \in issues[k].location

\* C24: an empty metadata.languages array, and an empty
\* metadata.source.languages array, each get an issue that names the array.
C24_EmptyLanguageArrays ==
    ReturnedPastVersion =>
        /\ stj.metadata.languages = List(<<>>) => NamesArray("metadata.languages")
        /\ (stj.metadata.source.t = "obj" /\ stj.metadata.source.languages = List(<<>>))
           => NamesArray("metadata.source.languages")

-----------------------------------------------------------------------------
(* The ancestor list of validate_extensions *)

\* the names enclosing the call of frame k, outermost first
EnclosingNames(k) == SubSeq(AncestorNames, 1, k - 1)

\* {"custom": {"extensions": {"b": {}}}, "a-1": {"extensions": {"b": {}}}}
IsSiblingExample ==
    /\ heap[1] = <<Item(CUSTOM, TRUE, Ref(2)), Item(A1, TRUE, Ref(3))>>
    /\ heap[2] = <<Item(B, TRUE, Absent)>>
    /\ heap[3] = <<Item(B, TRUE, Absent)>>

\* {"custom": {"extensions": {"a-1": {}}}, "a-1": {"extensions": {"custom": {}}}}
IsCrossExample ==
    /\ heap[1] = <<Item(CUSTOM, TRUE, Ref(2)), Item(A1, TRUE, Ref(3))>>
    /\ heap[2] = <<Item(A1, TRUE, Absent)>>
    /\ heap[3] = <<Item(CUSTOM, TRUE, Absent)>>

ExtensionsReturned == pc = "done" /\ "validate_extensions" \in ran

\* C25: the ancestor list of every running validate_extensions call is the
\* chain of namespace names that enclose it; no step changes the list of a
\* call that goes on running, so a call leaves its caller's list as it was;
\* and a name used under two sibling namespaces, or two names nested in each
\* other in separate branches, yield no circular-reference ERROR.
C25_AncestorListScoped ==
    /\ [](\A k \in DOMAIN stack : stack[k].parent_namespaces = EnclosingNames(k))
    /\ [][\A k \in DOMAIN stack \cap DOMAIN stack' :
            stack'[k].parent_namespaces = stack[k].parent_namespaces]_vars
    /\ []((ExtensionsReturned /\ (IsSiblingExample \/ IsCrossExample))
          => issues = <<>>)

\* the second branch of the crossed example has been walked to the end
C25_Witness == ExtensionsReturned /\ IsCrossExample /\ issues = <<>>

-----------------------------------------------------------------------------
(* Overlap recovery: _handle_segment_overlap, _can_merge_segments,         *)
(* _merge_segments and _merge_word_lists.  A ValidationIssue built without *)
(* a location has the empty set of places.  The f-string messages are      *)
(* modelled by their fixed part.                                           *)

\* "if x" on an Optional[float]: None and 0.0 are false
TruthyNum(v) == v.kind # "none" /\ v.coef # 0

\* min(a, b) and max(a, b) of Python: the first argument unless the second
\* is strictly smaller (larger)
PyMin(a, b) == IF NumLt(b, a) THEN b ELSE a
PyMax(a, b) == IF NumGt(b, a) THEN b ELSE a

\* min(c1, c2) if c1 and c2 else None
MergedConfidence(c1, c2) ==
    IF TruthyNum(c1) /\ TruthyNum(c2) THEN PyMin(c1, c2) ELSE NoneT

\* f"{segment1.text} {segment2.text}"
JoinedText(t1, t2) == Str(t1.s \o <<" ">> \o t2.s)

RECURSIVE SortByStart(_)
\* list.sort(key=start): a stable sort
SortByStart(ws) ==
    IF ws = <<>> THEN <<>>
    ELSE LET w == ws[Len(ws)]
             s == SortByStart(SubSeq(ws, 1, Len(ws) - 1))
             k == Cardinality({i \in DOMAIN s : ~NumLt(w.start, s[i].start)})
         IN SubSeq(s, 1, k) \o <<w>> \o SubSeq(s, k + 1, Len(s))

\* both arguments are non-empty lists where _merge_segments calls it
_merge_word_lists(words1, words2) ==
    IF words1 = <<>> \/ words2 = <<>>
    THEN (IF words1 # <<>> THEN words1 ELSE words2)
    ELSE SortByStart(SelectSeq(words1 \o words2, HasTiming))

_can_merge_segments(s1, s2) ==
    /\ s1.speaker_id = s2.speaker_id
    /\ s1.style_id = s2.style_id
    /\ s1.language = s2.language

_merge_segments(s1, s2) ==
    [EmptySegment EXCEPT
        !.text = JoinedText(s1.text, s2.text),
        !.start = PyMin(s1.start, s2.start),
        !.end = PyMax(s1.end, s2.end),
        !.speaker_id = s1.speaker_id,
        !.style_id = s1.style_id,
        !.language = s1.language,
        !.confidence = MergedConfidence(s1.confidence, s2.confidence),
        !.word_timing_mode =
            IF TruthyList(s1.words) \/ TruthyList(s2.words)
            THEN EnumMode(PARTIAL) ELSE NoMode,
        !.words =
            IF TruthyList(s1.words) /\ TruthyList(s2.words)
            THEN List(_merge_word_lists(s1.words.items, s2.words.items))
            ELSE NoList]

\* 0.5 seconds, in thousandths
SMALL_OVERLAP_MILLIS == 500

OverlapIssue == Issue("Segments overlap detected", {}, "ERROR")
MergedIssue == Issue("Segments merged to resolve overlap", {}, "INFO")
AdjustedIssue ==
    Issue("Adjusted segment boundary to resolve small overlap", {}, "WARNING")
SplitIssue == Issue("Created new segment for overlap region", {}, "WARNING")

\* abs(segment1.end - segment2.start), in thousandths
OverlapMillis(s1, s2) ==
    LET d == Millis(s1.end) - Millis(s2.start) IN IF d < 0 THEN 0 - d ELSE d

\* the outcome of a call: the returned pair and the two argument objects as
\* the call leaves them
Outcome(iss, segment, s1, s2) ==
    [issues |-> iss, ret |-> segment, segment1 |-> s1, segment2 |-> s2]

\* a recovery that tries the adjust strategy before the merge strategy
_handle_segment_overlap_bad(s1, s2) ==
    IF ~NumGt(s1.end, s2.start)
    THEN Outcome(<<>>, NoSegment, s1, s2)
    ELSE IF OverlapMillis(s1, s2) < SMALL_OVERLAP_MILLIS
    THEN Outcome(<<OverlapIssue, AdjustedIssue>>, NoSegment,
                 [s1 EXCEPT !.end = s2.start], s2)
    ELSE IF _can_merge_segments(s1, s2)
    THEN Outcome(<<OverlapIssue, MergedIssue>>,
                 SomeSegment(_merge_segments(s1, s2)), s1, s2)
    ELSE LET overlap_start == s2.start
             overlap_end == s1.end
         IN Outcome(<<OverlapIssue, SplitIssue>>,
                    SomeSegment([EmptySegment EXCEPT
                        !.text = JoinedText(s1.text, s2.text),
                        !.start = overlap_start,
                        !.end = overlap_end,
                        !.speaker_id = s1.speaker_id,
                        !.confidence = MergedConfidence(s1.confidence, s2.confidence)]),
                    [s1 EXCEPT !.end = overlap_start],
                    [s2 EXCEPT !.start = overlap_end])

_handle_segment_overlap(s1, s2) ==
    IF ~NumGt(s1.end, s2.start)
    THEN Outcome(<<>>, NoSegment, s1, s2)
    ELSE IF _can_merge_segments(s1, s2)
    THEN Outcome(<<OverlapIssue, MergedIssue>>,
                 SomeSegment(_merge_segments(s1, s2)), s1, s2)
    ELSE IF OverlapMillis(s1, s2) < SMALL_OVERLAP_MILLIS
    \* segment1.end = segment2.start
    THEN Outcome(<<OverlapIssue, AdjustedIssue>>, NoSegment,
                 [s1 EXCEPT !.end = s2.start], s2)
    \* segment1.end = overlap_start; segment2.start = overlap_end
    ELSE LET overlap_start == s2.start
             overlap_end == s1.end
         IN Outcome(<<OverlapIssue, SplitIssue>>,
                    SomeSegment([EmptySegment EXCEPT
                        !.text = JoinedText(s1.text, s2.text),
                        !.start = overlap_start,
                        !.end = overlap_end,
                        !.speaker_id = s1.speaker_id,
                        !.confidence = MergedConfidence(s1.confidence, s2.confidence)]),
                    [s1 EXCEPT !.end = overlap_start],
                    [s2 EXCEPT !.start = overlap_end])

\* the call _handle_segment_overlap(segment1, segment2)
HandleOverlapCall ==
    /\ pc = "overlap_call"
    /\ LET out == _handle_segment_overlap(segment1, segment2)
       IN /\ issues' = out.issues
          /\ ret' = out.ret
          /\ segment1' = out.segment1
          /\ segment2' = out.segment2
    /\ ran' = ran \cup {"_handle_segment_overlap"}
    /\ pc' = "done"
    /\ UNCHANGED <<stj, targ, zarg, heap, stack, first>>

NextOverlap == HandleOverlapCall

(* pairs of segments handed to _handle_segment_overlap *)

Quarter == FloatT(FALSE, 25, -2)
Half == FloatT(FALSE, 5, -1)
OneAndHalf == FloatT(FALSE, 15, -1)

RecoveryTimes == {Seconds(0), Quarter, Half, Seconds(1), OneAndHalf, Seconds(2)}

Intervals == {t \in RecoveryTimes \X RecoveryTimes : ~NumLt(t[2], t[1])}

\* pairs that differ in their times and in what the second segment shares
\* with the first
TimingPairs ==
    {<<MkSegment(Str(A), t1[1], t1[2], "none"),
       [MkSegment(Str(B), t2[1], t2[2], "none") EXCEPT
           !.speaker_id = sp, !.style_id = st, !.language = la]>> :
        t1 \in Intervals, t2 \in Intervals,
        sp \in {NoneS, Str(A)}, st \in {NoneS, Str(A)}, la \in {NoneS, Str(EN)}}

Confidences == {NoneT, ZeroT, Half, FloatT(FALSE, 9, -1)}

RecoveryWordLists ==
    {NoList, List(<<>>),
     List(<<MkWord(Str(A), Seconds(0), Half, "none")>>),
     List(<<MkWord(Str(A), NoneT, NoneT, "none")>>),
     List(<<MkWord(Str(B), Seconds(1), OneAndHalf, "none"),
            MkWord(Str(A), Half, Seconds(1), "none")>>)}

\* overlapping pairs that differ in their confidences and word lists
ContentPairs ==
    {<<[MkSegment(Str(A), t[1], t[2], "none") EXCEPT
           !.confidence = c1, !.words = w1],
       [MkSegment(Str(B), t[3], t[4], "none") EXCEPT
           !.confidence = c2, !.words = w2, !.speaker_id = sp]>> :
        t \in {<<Seconds(0), Seconds(1), Half, Seconds(2)>>,
               <<Seconds(0), Seconds(2), Half, Seconds(1)>>,
               <<Seconds(0), Seconds(1), Seconds(0), Seconds(1)>>},
        c1 \in Confidences, c2 \in Confidences,
        w1 \in RecoveryWordLists, w2 \in RecoveryWordLists,
        sp \in {NoneS, Str(A)}}

InitOverlap ==
    /\ pc = "overlap_call"
    /\ \E p \in TimingPairs \cup ContentPairs : segment1 = p[1] /\ segment2 = p[2]
    /\ ret = NoSegment
    /\ stj = MkDoc(NoneS, NoTranscript, NoMetadata)
    /\ issues = <<>>
    /\ ran = {}
    /\ first = NoFirst
    /\ targ = NoneT
    /\ zarg = NoZarg
    /\ heap = NoHeap
    /\ stack = <<>>

SpecOverlap == InitOverlap /\ [][NextOverlap]_vars

\* the call is about to run
AtOverlapCall == pc = "overlap_call"

TimeOrdered == ~NumGt(segment1.start, segment2.start)
Overlapping == NumGt(segment1.end, segment2.start)

\* C26: on time-ordered segments with segment1.end > segment2.start the call
\* applies one strategy: merge if and only if speaker_id, style_id and
\* language are equal, otherwise adjust if and only if the overlap is under
\* 0.5, otherwise split; it returns the overlap ERROR followed by the one
\* issue of the strategy (INFO for merge, WARNING for adjust and split).
\* With segment1.end <= segment2.start it returns no issue and no segment.
C26_StrategyOrder ==
    [][AtOverlapCall =>
          LET same == /\ segment1.speaker_id = segment2.speaker_id
                      /\ segment1.style_id = segment2.style_id
                      /\ segment1.language = segment2.language
              small == Millis(segment1.end) - Millis(segment2.start)
                          < SMALL_OVERLAP_MILLIS
          IN /\ (TimeOrdered /\ Overlapping) =>
                   /\ Len(issues') = 2
                   /\ issues'[1] = OverlapIssue
                   /\ issues'[1].severity = "ERROR"
                   /\ same => (issues'[2] = MergedIssue /\ issues'[2].severity = "INFO"
                               /\ ret'.t = "obj")
                   /\ (~same /\ small) =>
                         (issues'[2] = AdjustedIssue /\ issues'[2].severity = "WARNING"
                          /\ ret'.t = "none")
                   /\ (~same /\ ~small) =>
                         (issues'[2] = SplitIssue /\ issues'[2].severity = "WARNING"
                          /\ ret'.t = "obj")
             /\ ~Overlapping => (issues' = <<>> /\ ret' = NoSegment)]_vars

OverlapReturned == pc = "done" /\ "_handle_segment_overlap" \in ran

\* a split has been made
C26_Witness == OverlapReturned /\ issues = <<OverlapIssue, SplitIssue>>

\* C27: _handle_segment_overlap leaves the start and end of both segments it
\* is given as they were, whichever strategy it applies.
C27_InputsUnchanged ==
    [][AtOverlapCall =>
          /\ segment1'.start = segment1.start /\ segment1'.end = segment1.end
          /\ segment2'.start = segment2.start /\ segment2'.end = segment2.end]_vars

\* start <= end
WellOrdered(seg) == ~NumGt(seg.start, seg.end)

\* the first ends at or before the start of the second
Precedes(a, b) == ~NumGt(a.end, b.start)

\* C28: when the split strategy is applied to segments with
\* segment1.start <= segment2.start < segment1.end, the shrunk first
\* segment, the synthesized segment and the shrunk second segment each have
\* start <= end, follow each other without overlap, and the synthesized
\* segment spans [segment2.start, min(segment1.end, segment2.end)].
C28_SplitGeometry ==
    [][(AtOverlapCall /\ TimeOrdered /\ Overlapping /\ issues'[2] = SplitIssue) =>
          /\ ret'.t = "obj"
          /\ WellOrdered(segment1') /\ WellOrdered(ret'.segment) /\ WellOrdered(segment2')
          /\ Precedes(segment1', ret'.segment) /\ Precedes(ret'.segment, segment2')
          /\ Precedes(segment1', segment2')
          /\ NumEq(ret'.segment.start, segment2.start)
          /\ NumEq(ret'.segment.end, PyMin(segment1.end, segment2.end))]_vars

\* "x.words or []"
ItemsOf(seg) == IF seg.words.t = "list" THEN seg.words.items ELSE <<>>

Count(w, ws) == Cardinality({i \in DOMAIN ws : ws[i] = w})

\* ws holds the words of all, each as often as all does
SameWords(ws, all) ==
    /\ Len(ws) = Len(all)
    /\ \A i \in DOMAIN all : Count(all[i], ws) = Count(all[i], all)

\* the words that carry a start are in the order of their starts
SortedByStart(ws) ==
    \A i, j \in DOMAIN ws :
        (i < j /\ ws[i].start.kind # "none" /\ ws[j].start.kind # "none")
        => ~NumGt(ws[i].start, ws[j].start)

\* C29: the segment the merge strategy returns has the smaller start, the
\* larger end, the two texts joined by one space, the smaller confidence
\* whenever both segments carry one (0.0 included), and the words of both
\* word lists, sorted by start, none lost.
C29_MergedSegment ==
    [][(AtOverlapCall /\ TimeOrdered /\ Overlapping
        /\ _can_merge_segments(segment1, segment2)) =>
          /\ ret'.t = "obj"
          /\ NumEq(ret'.segment.start, PyMin(segment1.start, segment2.start))
          /\ NumEq(ret'.segment.end, PyMax(segment1.end, segment2.end))
          /\ ret'.segment.text = Str(segment1.text.s \o <<" ">> \o segment2.text.s)
          /\ (segment1.confidence.kind # "none" /\ segment2.confidence.kind # "none")
             => /\ ret'.segment.confidence.kind # "none"
                /\ NumEq(ret'.segment.confidence,
                         PyMin(segment1.confidence, segment2.confidence))
          /\ SameWords(ItemsOf(ret'.segment), ItemsOf(segment1) \o ItemsOf(segment2))
          /\ SortedByStart(ItemsOf(ret'.segment))]_vars

-----------------------------------------------------------------------------
(* Soundness of the segment pass *)

UntimedSegment == MkSegment(Str(A), NoneT, NoneT, "none")

\* transcripts of SegmentDocs, and transcripts with an untimed segment
\* between two others
GapDocs ==
    SegmentDocs
    \cup {MkDoc(Str(V060), MkTranscript(<<s1, UntimedSegment, s3>>, <<>>, NoList),
                NoMetadata) :
            s1 \in SegmentChoices, s3 \in SegmentChoices}

InitGaps == InitWith(GapDocs)
SpecGaps == InitGaps /\ [][Next]_vars

\* validate_transcript has called validate_segments, which returned no issue
SegmentsPassed ==
    /\ "validate_transcript" \in ran
    /\ stj.transcript.t = "obj"
    /\ ~stj.transcript.invalid_segments_type
    /\ Segments # <<>>
    /\ validate_segments(stj.transcript) = <<>>

\* segment j is the timed segment that precedes segment i
PrecedingTimed(j, i) ==
    /\ j < i
    /\ Carries(Segments[j])
    /\ \A k \in (j + 1)..(i - 1) : ~Carries(Segments[k])

====
